---- MODULE Spec2Model ----
(***************************************************************************)
(* State-machine model of the twin server: the storage layer               *)
(* (server/storage.ts), the chat route POST /api/users/:id/messages and    *)
(* the user routes (routes file), and the streaming generator              *)
(* streamChatResponse (server/openai.ts).                                  *)
(*                                                                         *)
(* Text is a sequence of characters; a reply fragment is a non-empty text; *)
(* string concatenation (+=) is \o.  Every `await` of a handler is one     *)
(* step: the awaited call takes effect and the handler runs on to its next *)
(* await (the code between two awaits touches only the handler's locals    *)
(* and its own response).                                                  *)
(*                                                                         *)
(* Spec is the whole server; SpecChat is the chat route over a users table *)
(* that no operation changes; SpecConc is the chat route with MaxConc       *)
(* requests in flight; SpecUsers is the user routes alone with MaxUserOps   *)
(* operations in flight; SpecCtx applies context selection to turn lists   *)
(* of up to MaxCtxLog turns; SpecProfile applies the two profile           *)
(* normalizers to outcomes of fetch and parse; SpecSynth applies persona    *)
(* synthesis to source values and replies of the model service; SpecLog is  *)
(* SpecConc over a log of three turns; SpecLive is SpecChat with every     *)
(* awaited call settling; SpecClient applies the client's reader loop      *)
(* (client/src/pages/chat.tsx) to a response body of up to MaxReply reply  *)
(* bytes, split into read chunks in every way.                             *)
(***************************************************************************)
EXTENDS Integers, Sequences, FiniteSets, TLC

\* ------------------------------------------------------------------ bounds
MaxReq == 1            \* chat requests Spec and SpecChat let in
MaxConc == 2           \* chat requests SpecConc lets in
MaxChunks == 3         \* chunks the upstream service delivers in a run, over all streams
MaxOps == 1            \* user operations (create, update, Spotify callback) Spec lets in
MaxUserOps == 2        \* user operations SpecUsers lets in
MaxCtxLog == 8         \* longest turn list given to context selection (SpecCtx)
MaxRated == 6          \* longest feed of rated items given to the Letterboxd normalizer
MaxTagged == 3         \* longest feed of genre-tagged items given to the Letterboxd normalizer
MaxListed == 2         \* longest artist and track lists given to the Spotify normalizer
MaxReply == 3          \* reply bytes of the response body given to the client consumer

\* ------------------------------------------------------- program constants
ContextTurns == 5      \* messages.slice(-5)
ExaminedItems == 20    \* items.slice(0, 20)
RecentRatingsMax == 10 \* recentRatings.slice(0, 10)
FavoriteFilmsMax == 5  \* favoriteFilms: .slice(0, 5)
FavoriteGenresMax == 5 \* favoriteGenres: .slice(0, 5)
TopArtistsMax == 5     \* topArtists.items.slice(0, 5)
TopGenresMax == 5      \* Array.from(genres).slice(0, 5)
RecentTracksMax == 10  \* recentTracks.items.slice(0, 10)
PromptTracksMax == 5   \* recentTracks ... .slice(0, 5) in the synthesis prompts

Larger(a, b) == IF a > b THEN a ELSE b

NumReqs == Larger(MaxReq, MaxConc)
Reqs == 1..NumReqs
Ops == 1..Larger(MaxOps, MaxUserOps)

\* ------------------------------------------------------------------ values
\* A JavaScript object is a function from the names of its own fields to their
\* values: a field the object lacks is outside its DOMAIN.
NoPersona == [null |-> TRUE]              \* twinPersonality: null (createUser)
Names == {"Ann", "Bob"}
Contents == {<<"x">>}                     \* message texts a client sends
FragTexts == {<<"a">>, <<"b", "a">>}      \* non-empty delta.content values
EmptyText == <<>>

\* chunk.choices[0]?.delta?.content : missing (undefined) or a string
Chunks == {[has |-> FALSE, content |-> EmptyText]} \cup
          {[has |-> TRUE, content |-> c] : c \in FragTexts \cup {EmptyText}}

\* { status: 'not_provided' }
NotProvided == [status |-> "not_provided"]

NoUser == [name |-> "", twin |-> NoPersona, lb |-> NotProvided, sp |-> NotProvided,
           exists |-> FALSE]
IdleOp == [pc |-> "idle", kind |-> "none", id |-> 0, name |-> "", url |-> FALSE,
           lb |-> NotProvided, sp |-> NotProvided, snap |-> NoUser, twin |-> NoPersona,
           music |-> <<>>, out |-> "none"]

\* a user operation that has responded: its locals are gone; `music` keeps
\* what the prompts its synthesis sent to the model service said about music
Finished(kind, out) == [IdleOp EXCEPT !.pc = "done", !.kind = kind, !.out = out]
MusicOf(sent) == [i \in 1..Len(sent) |-> sent[i].music]
FinishedAfter(kind, out, sent) == [Finished(kind, out) EXCEPT !.music = MusicOf(sent)]

\* what a handler wrote to its response, in order
ControlRec(m) == [t |-> "control", m |-> m, s |-> EmptyText]   \* JSON.stringify({userMessage}) + '\n'
FragRec(c) == [t |-> "frag", m |-> 0, s |-> c]                  \* res.write(chunk)
ErrorRec == [t |-> "error", m |-> 0, s |-> EmptyText]           \* res.end(JSON.stringify({error}))
JsonRec(code) == [t |-> "json", m |-> code, s |-> EmptyText]    \* res.status(code).json({message})

VARIABLES
    users,          \* users table: sequence of rows, index = serial id
    messages,       \* messages table: sequence of rows in insertion order
    pc,             \* per request: position of the handler
    ruser,          \* per request: req.params.id
    rcontent,       \* per request: req.body.content
    user,           \* per request: local `user` (getUser result)
    userMessage,    \* per request: local `userMessage` (id of the row, 0 = unset)
    listed,         \* per request: local `messages` (getMessages result)
    context,        \* per request: local `context`
    pending,        \* per request: the fragment the generator has yielded
    fullResponse,   \* per request: local `fullResponse`
    res,            \* per request: records written to the response, in order
    ended,          \* per request: res.writableEnded
    pulls,          \* per request: chunks requested from the upstream stream
    yielded,        \* per request: the fragments the generator has yielded, in order
    calls,          \* per request: upstream streaming calls opened
    stream,         \* per request: "none" | "open" | "end" | "error"
    cancelled,      \* per request: "no", or when the consumer disconnected: "before" the
                    \* stream opened, while it was "open" with no fragment forwarded yet,
                    \* while "streaming" (a fragment forwarded), or "after" it closed
    twinMessage,    \* per request: id of the row persisted as the Twin turn (0 = none)
    ops,            \* per user operation: position and locals of the handler
    pendingSpotifyData, \* req.session.pendingSpotifyData
    ctxTurns,       \* SpecCtx: the turn list given to context selection
    ctxName,        \* SpecCtx: the twin's name
    ctxOut,         \* SpecCtx: the result of context selection
    lbFetch,        \* SpecProfile: the outcome of fetch and parse given to getLetterboxdProfile
    lbOut,          \* SpecProfile: what getLetterboxdProfile returned
    spFetch,        \* SpecProfile: the outcome of the requests given to getUserData
    spOut,          \* SpecProfile: what getUserData returned, or that it rejected
    synIn,          \* SpecSynth: the arguments and model replies given to generateTwinPersonality
    synOut,         \* SpecSynth: what generateTwinPersonality returned, or that it rejected
    reads,          \* SpecClient: the response body and the chunks reader.read() still delivers
    consumer        \* SpecClient: isFirstChunk, the userMessage taken, streamingMessage

chatVars == <<pc, ruser, rcontent, user, userMessage, listed, context, pending,
              fullResponse, res, ended, pulls, yielded, calls, stream, cancelled,
              twinMessage>>
ctxVars == <<ctxTurns, ctxName, ctxOut>>
profileVars == <<lbFetch, lbOut, spFetch, spOut>>
synVars == <<synIn, synOut>>
clientVars == <<reads, consumer>>
fnVars == <<ctxVars, profileVars, synVars, clientVars>>
opVars == <<ops, pendingSpotifyData>>
vars == <<users, messages, chatVars, opVars, fnVars>>

\* ------------------------------------------------------------------ helpers
RECURSIVE Concat(_)
\* the in-order concatenation of a sequence of texts
Concat(ss) == IF ss = <<>> THEN EmptyText ELSE Head(ss) \o Concat(Tail(ss))

RECURSIVE FragsOf(_)
\* the reply fragments among the records written to a response, in order
FragsOf(w) ==
    IF w = <<>> THEN <<>>
    ELSE IF Head(w).t = "frag" THEN <<Head(w).s>> \o FragsOf(Tail(w))
    ELSE FragsOf(Tail(w))

RECURSIVE PermSeqs(_)
\* every ordering of a set of rows
PermSeqs(S) ==
    IF S = {} THEN {<<>>}
    ELSE UNION {{<<x>> \o p : p \in PermSeqs(S \ {x})} : x \in S}

Range(s) == {s[i] : i \in 1..Len(s)}

\* ------------------------------------------------------------------ storage
\* storage.getUser: the row with that id, or undefined
GetUser(id) == IF id \in 1..Len(users) THEN users[id] ELSE NoUser

\* the fields of the row the chat handler reads: user.name, user.twinPersonality
Snapshot(row) == [NoUser EXCEPT !.name = row.name, !.twin = row.twin, !.exists = row.exists]

\* the row storage.addMessage inserts; id is the serial primary key
NewMessage(userId, content, fromUser) ==
    [id |-> Len(messages) + 1, userId |-> userId, content |-> content, fromUser |-> fromUser]

\* (mutant of AddMessage) the user's latest row is replaced by the new one
AddMessageReplacing(userId, content, fromUser) ==
    messages' = IF messages = <<>>
                THEN <<NewMessage(userId, content, fromUser)>>
                ELSE [messages EXCEPT ![Len(messages)] =
                        [@ EXCEPT !.content = content, !.fromUser = fromUser]]

\* storage.addMessage: db.insert(messages).values({ userId, content, fromUser })
AddMessage(userId, content, fromUser) ==
    messages' = Append(messages, NewMessage(userId, content, fromUser))

\* storage.getMessages: select ... where user_id = userId, with no ORDER BY:
\* the rows of that user, in an order the database chooses
GetMessages(userId) == PermSeqs({m \in Range(messages) : m.userId = userId})

\* ------------------------------------------------------- context selection
\* (mutant of SliceLast) slice(0, n): the oldest n entries
SliceFirst(s, n) == IF Len(s) <= n THEN s ELSE SubSeq(s, 1, n)

\* JavaScript Array.prototype.slice(-n)
SliceLast(s, n) == IF Len(s) <= n THEN s ELSE SubSeq(s, Len(s) - n + 1, Len(s))

\* `${m.fromUser ? "User" : user.name}: ${m.content}`
FormatTurn(m, name) == <<IF m.fromUser THEN "User" ELSE name, ": ">> \o m.content

\* messages.slice(-5).map(m => ...)
SelectContext(turns, name) ==
    LET w == SliceLast(turns, ContextTurns)
    IN [i \in 1..Len(w) |-> FormatTurn(w[i], name)]

\* ------------------------------------------------------------ streamChatResponse
\* (mutant of Truthy) every chunk is yielded, whatever its content
TruthyAlways(chunk) == TRUE

\* if (content) yield content
Truthy(chunk) == chunk.has /\ chunk.content # EmptyText

\* (mutant of Accumulate) the fragment is put in front of the text
AccumulateFront(full, chunk) == chunk \o full

\* fullResponse += chunk
Accumulate(full, chunk) == full \o chunk

\* ------------------------------------------------------------ text and objects
\* Array.prototype.slice(0, n)
Take(s, n) == IF Len(s) <= n THEN s ELSE SubSeq(s, 1, n)

\* Array.prototype.filter, for a set of kept values
RECURSIVE Keep(_, _)
Keep(s, S) ==
    IF s = <<>> THEN <<>>
    ELSE IF Head(s) \in S THEN <<Head(s)>> \o Keep(Tail(s), S)
    ELSE Keep(Tail(s), S)

DigitChars == {"0", "1", "2", "3", "4", "5", "6", "7", "8", "9"}

DigitVal(c) == CHOOSE n \in 0..9 : <<"0", "1", "2", "3", "4", "5", "6", "7", "8", "9">>[n + 1] = c

RECURSIVE DigitsPrefix(_)
\* the length of the longest prefix of s made of decimal digits
DigitsPrefix(s) ==
    IF s # <<>> /\ Head(s) \in DigitChars THEN 1 + DigitsPrefix(Tail(s)) ELSE 0

RECURSIVE NumOf(_)
\* the number a sequence of decimal digits writes
NumOf(ds) == IF ds = <<>> THEN 0 ELSE 10 * NumOf(SubSeq(ds, 1, Len(ds) - 1)) + DigitVal(ds[Len(ds)])

RECURSIVE Pow10(_)
Pow10(n) == IF n = 0 THEN 1 ELSE 10 * Pow10(n - 1)

\* JavaScript parseFloat on an unsigned decimal literal followed by anything:
\* the longest prefix digits [. digits] is read; NaN when it holds no digit.
\* The value is num / den.
ParseFloat(s) ==
    LET k == DigitsPrefix(s)
        rest == SubSeq(s, k + 1, Len(s))
        m == IF rest # <<>> /\ Head(rest) = "." THEN DigitsPrefix(Tail(rest)) ELSE 0
    IN IF k + m = 0
       THEN [nan |-> TRUE, num |-> 0, den |-> 1]
       ELSE [nan |-> FALSE,
             num |-> NumOf(SubSeq(s, 1, k)) * Pow10(m) + NumOf(SubSeq(s, k + 2, k + 1 + m)),
             den |-> Pow10(m)]

RECURSIVE Split(_, _)
\* String.prototype.split(c): the pieces between the occurrences of c
Split(s, c) ==
    IF \E i \in 1..Len(s) : s[i] = c
    THEN LET i == CHOOSE j \in 1..Len(s) : s[j] = c /\ \A h \in 1..(j - 1) : s[h] # c
         IN <<SubSeq(s, 1, i - 1)>> \o Split(SubSeq(s, i + 1, Len(s)), c)
    ELSE <<s>>

RECURSIVE Trim(_)
\* String.prototype.trim
Trim(s) ==
    IF s # <<>> /\ Head(s) = " " THEN Trim(Tail(s))
    ELSE IF s # <<>> /\ s[Len(s)] = " " THEN Trim(SubSeq(s, 1, Len(s) - 1))
    ELSE s

\* x?.[0] of a field of a parsed feed item: whether it is there
Has(o, f) == f \in DOMAIN o

\* ------------------------------------------------------- getLetterboxdProfile
\* A parsed feed item is an object whose fields are the first values of its
\* elements: filmTitle and filmYear (strings), memberRating and filmGenres
\* (texts); filmGenresObj stands for a filmGenres element that xml2js parsed
\* into an object (an element with attributes), on which .split is no function.
Watched == <<"W", "a", "t", "c", "h", "e", "d">>

\* rating ? `${rating}/5` : 'Watched'
RatingLabel(item) ==
    IF Has(item, "memberRating") /\ item.memberRating # EmptyText
    THEN item.memberRating \o <<"/", "5">>
    ELSE Watched

\* item['letterboxd:filmGenres']?.[0]?.split(',').map(g => g.trim()) || []
ItemGenres(item) ==
    IF Has(item, "filmGenres")
    THEN LET parts == Split(item.filmGenres, ",") IN [i \in 1..Len(parts) |-> Trim(parts[i])]
    ELSE <<>>

\* the map callback throws (caught by its own try/catch, which returns null)
ItemThrows(item) == Has(item, "filmGenresObj")

\* genreFrequency is an object: its own keys in insertion order, with their counts.
\* genreFrequency[genre] = (genreFrequency[genre] || 0) + 1
CountGenre(freq, g) ==
    IF \E i \in 1..Len(freq) : freq[i].g = g
    THEN [i \in 1..Len(freq) |-> IF freq[i].g = g THEN [freq[i] EXCEPT !.n = @ + 1] ELSE freq[i]]
    ELSE Append(freq, [g |-> g, n |-> 1])

RECURSIVE CountGenres(_, _)
\* genres.forEach(...)
CountGenres(freq, gs) ==
    IF gs = <<>> THEN freq ELSE CountGenres(CountGenre(freq, Head(gs)), Tail(gs))

\* what the map callback returns for an item, as a list of zero or one rating
ItemRating(item) ==
    IF ItemThrows(item) \/ ~Has(item, "filmTitle") \/ item.filmTitle = ""
    THEN <<>>
    ELSE <<[title |-> item.filmTitle,
            rating |-> RatingLabel(item),
            year |-> IF Has(item, "filmYear") THEN item.filmYear ELSE "",
            genres |-> ItemGenres(item)]>>

RECURSIVE ProcessItems(_, _)
\* items.map(...).filter(item => item !== null), counting genres on the way
ProcessItems(items, freq) ==
    IF items = <<>> THEN [ratings |-> <<>>, freq |-> freq]
    ELSE LET item == Head(items)
             counted == IF ItemThrows(item) THEN freq ELSE CountGenres(freq, ItemGenres(item))
             rest == ProcessItems(Tail(items), counted)
         IN [ratings |-> ItemRating(item) \o rest.ratings, freq |-> rest.freq]

\* a canonical array index: such keys of an object enumerate first, in
\* ascending numeric order (OrdinaryOwnPropertyKeys)
IsArrayIndex(g) ==
    /\ g # <<>>
    /\ DigitsPrefix(g) = Len(g)
    /\ Len(g) = 1 \/ g[1] # "0"
    /\ Len(g) <= 9

RECURSIVE IndexEntries(_, _)
IndexEntries(freq, I) ==
    IF I = {} THEN <<>>
    ELSE LET i == CHOOSE h \in I : \A j \in I : NumOf(freq[h].g) <= NumOf(freq[j].g)
         IN <<freq[i]>> \o IndexEntries(freq, I \ {i})

\* Object.entries(genreFrequency): index keys in ascending numeric order, then
\* the other keys in insertion order
Entries(freq) ==
    IndexEntries(freq, {i \in 1..Len(freq) : IsArrayIndex(freq[i].g)})
        \o Keep(freq, {freq[i] : i \in {j \in 1..Len(freq) : ~IsArrayIndex(freq[j].g)}})

RECURSIVE SortByCount(_)
\* .sort(([, a], [, b]) => b - a): descending count; the sort is stable
SortByCount(es) ==
    IF es = <<>> THEN <<>>
    ELSE LET sorted == SortByCount(SubSeq(es, 1, Len(es) - 1))
             x == es[Len(es)]
             k == Cardinality({i \in 1..Len(sorted) : sorted[i].n >= x.n})
         IN SubSeq(sorted, 1, k) \o <<x>> \o SubSeq(sorted, k + 1, Len(sorted))

\* (mutant of IsFavorite) every rated film is a favorite
IsFavoriteRated(r) == ~ParseFloat(r.rating).nan

\* parseFloat(r.rating) >= 4.5
IsFavorite(r) ==
    LET v == ParseFloat(r.rating) IN ~v.nan /\ 2 * v.num >= 9 * v.den

\* recentRatings.filter(r => parseFloat(r.rating) >= 4.5).map(r => r.title).slice(0, 5)
FavoriteFilms(ratings) ==
    LET kept == Keep(ratings, {r \in Range(ratings) : IsFavorite(r)})
    IN Take([i \in 1..Len(kept) |-> kept[i].title], FavoriteFilmsMax)

\* Object.entries(genreFrequency).sort(...).slice(0, 5).map(([genre]) => genre)
FavoriteGenres(freq) ==
    LET top == Take(SortByCount(Entries(freq)), FavoriteGenresMax)
    IN [i \in 1..Len(top) |-> top[i].g]

LbError(message) == [status |-> "error", error |-> message]

\* getLetterboxdProfile, given the outcome of the URL check, the fetch and the
\* parse: `fetch.kind` says how far the fetch got, `fetch.items` is channel.item
GetLetterboxdProfile(fetch) ==
    IF fetch.kind = "invalid_url" THEN LbError("Invalid Letterboxd URL format")
    ELSE IF fetch.kind \in {"network", "http_body", "http_no_body", "not_text"}
         THEN LbError("message (name)")        \* outer catch: `${error.message} (${error.name})`
    ELSE IF fetch.kind = "bad_xml" THEN LbError("Invalid XML response from Letterboxd")
    ELSE IF fetch.kind = "no_channel" THEN LbError("Invalid RSS data structure")
    ELSE IF fetch.items = <<>> THEN LbError("No activity found in profile")
    ELSE LET done == ProcessItems(Take(fetch.items, ExaminedItems), <<>>)
         IN IF done.ratings = <<>> THEN LbError("No valid ratings found in profile")
            ELSE [status |-> "success",
                  recentRatings |-> Take(done.ratings, RecentRatingsMax),
                  favoriteGenres |-> FavoriteGenres(done.freq),
                  favoriteFilms |-> FavoriteFilms(done.ratings)]

\* ------------------------------------------------- SpotifyClient.getUserData
\* (mutant of Distinct) an array instead of a Set: repetitions are kept
Repeated(s) == s

RECURSIVE Distinct(_)
\* the insertion order of a Set fed the elements of s: first occurrences
Distinct(s) ==
    IF s = <<>> THEN <<>>
    ELSE LET front == Distinct(SubSeq(s, 1, Len(s) - 1))
         IN IF s[Len(s)] \in Range(front) THEN front ELSE Append(front, s[Len(s)])

RECURSIVE Flatten(_)
Flatten(ss) == IF ss = <<>> THEN <<>> ELSE Head(ss) \o Flatten(Tail(ss))

SpError(message) == [status |-> "error", error |-> message]

\* the promise rejects: an exception leaves getUserData
Rejects == [rejected |-> TRUE]

\* the try block throws a TypeError: an artist without a genres array, or one
\* of the first 10 tracks without a first artist
Malformed(fetch) ==
    \/ \E i \in 1..Len(fetch.artists) : ~Has(fetch.artists[i], "genres")
    \/ \E i \in 1..Len(Take(fetch.tracks, RecentTracksMax)) : fetch.tracks[i].artists = <<>>

\* getUserData, given the outcome of the two requests of Promise.all:
\* "network" (an axios error with no response), "http" (an axios error with a
\* response, whose parsed body is fetch.data), or "ok" with the two item lists
GetUserData(fetch) ==
    IF fetch.kind = "network" THEN SpError("message")
    ELSE IF fetch.kind = "http"
         THEN IF fetch.data = "null"
              THEN Rejects             \* error.response.data.error: TypeError inside the catch
              ELSE SpError("Spotify API error")
    ELSE IF Malformed(fetch) THEN SpError("message")
    ELSE [status |-> "success",
          topArtists |-> LET top == Take(fetch.artists, TopArtistsMax)
                         IN [i \in 1..Len(top) |-> top[i].name],
          topGenres |-> Take(Distinct(Flatten([i \in 1..Len(fetch.artists) |->
                                                 fetch.artists[i].genres])), TopGenresMax),
          recentTracks |-> LET recent == Take(fetch.tracks, RecentTracksMax)
                           IN [i \in 1..Len(recent) |->
                                 [name |-> recent[i].name, artist |-> recent[i].artists[1],
                                  playedAt |-> recent[i].played_at]]]

\* -------------------------------------------------------- persona synthesis
\* an argument that is undefined (not passed, or passed as undefined)
Undefined == [undefined |-> TRUE]

\* data?.status
Status(data) == IF Has(data, "status") THEN data.status ELSE "undefined"

NoMovieData == "No movie preference data available."
NoMusicData == "No music preference data available."

\* (mutant of MovieSection) a source that is not success is left out of the prompt
MovieSectionOmitting(letterboxdData, heading) ==
    IF Status(letterboxdData) = "success"
    THEN [clause |-> heading,
          recentRatings |-> [i \in 1..Len(letterboxdData.recentRatings) |->
                               <<letterboxdData.recentRatings[i].title,
                                 letterboxdData.recentRatings[i].rating>>],
          favoriteGenres |-> letterboxdData.favoriteGenres,
          favoriteFilms |-> letterboxdData.favoriteFilms]
    ELSE [clause |-> ""]

\* ${letterboxdData?.status === 'success' ? `...` : 'No movie preference data available.'}
MovieSection(letterboxdData, heading) ==
    IF Status(letterboxdData) = "success"
    THEN [clause |-> heading,
          recentRatings |-> [i \in 1..Len(letterboxdData.recentRatings) |->
                               <<letterboxdData.recentRatings[i].title,
                                 letterboxdData.recentRatings[i].rating>>],
          favoriteGenres |-> letterboxdData.favoriteGenres,
          favoriteFilms |-> letterboxdData.favoriteFilms]
    ELSE [clause |-> NoMovieData]

\* ${spotifyData?.status === 'success' ? `...` : 'No music preference data available.'}
MusicSection(spotifyData, heading) ==
    IF Status(spotifyData) = "success"
    THEN [clause |-> heading,
          topArtists |-> spotifyData.topArtists,
          topGenres |-> spotifyData.topGenres,
          recentTracks |-> LET named == [i \in 1..Len(spotifyData.recentTracks) |->
                                           <<spotifyData.recentTracks[i].name,
                                             spotifyData.recentTracks[i].artist>>]
                           IN Take(named, PromptTracksMax)]
    ELSE [clause |-> NoMusicData]

\* the prompt of analyzePersonality
InsightPrompt(bio, letterboxdData, spotifyData) ==
    [ask |-> "insight", bio |-> bio,
     movies |-> MovieSection(letterboxdData, "Their movie preferences:"),
     music |-> MusicSection(spotifyData, "Their music preferences:")]

\* the prompt of generateTwinPersonality
PersonaPrompt(name, bio, letterboxdData, spotifyData, personalityInsight) ==
    [ask |-> "persona", name |-> name, bio |-> bio,
     movies |-> MovieSection(letterboxdData, "Movie Preferences:"),
     music |-> MusicSection(spotifyData, "Music Preferences:"),
     insight |-> personalityInsight]

\* A reply of openai.chat.completions.create: the call rejects (ok = FALSE) or
\* resolves with choices[0].message.content, which is null or the empty string
\* (has = FALSE) or a non-empty string.
\* analyzePersonality: return response.choices[0].message.content || ""
AnalyzePersonality(bio, letterboxdData, spotifyData, reply) ==
    [ok |-> reply.ok, text |-> IF reply.ok /\ reply.has THEN reply.text ELSE EmptyText]

\* A JSON text is written here as whether it parses and the value it writes.
EmptyObjectText == [valid |-> TRUE, value |-> <<>>]     \* "{}"

\* JSON.parse: throws on a text that is not JSON
JsonParse(text) == [ok |-> text.valid, value |-> text.value]

\* (mutant of Spread) { personalityInsight, ...data }: a field of data wins
SpreadInsightFirst(data, personalityInsight) ==
    [f \in DOMAIN data \cup {"personalityInsight"} |->
        IF f \in DOMAIN data THEN data[f] ELSE personalityInsight]

\* { ...data, personalityInsight }
Spread(data, personalityInsight) ==
    [f \in DOMAIN data \cup {"personalityInsight"} |->
        IF f = "personalityInsight" THEN personalityInsight ELSE data[f]]

Failed(sent) == [ok |-> FALSE, persona |-> NoPersona, calls |-> sent]

\* generateTwinPersonality, given the replies to its two model calls; `calls`
\* are the prompts it sent, in order
GenerateTwinPersonality(name, bio, letterboxdData, spotifyData, insightReply, personaReply) ==
    LET first == InsightPrompt(bio, letterboxdData, spotifyData)
        insight == AnalyzePersonality(bio, letterboxdData, spotifyData, insightReply)
        second == PersonaPrompt(name, bio, letterboxdData, spotifyData, insight.text)
        data == JsonParse(IF personaReply.has THEN personaReply.text ELSE EmptyObjectText)
    IN IF ~insight.ok THEN Failed(<<first>>)
       ELSE IF ~personaReply.ok \/ ~data.ok THEN Failed(<<first, second>>)
       ELSE [ok |-> TRUE, persona |-> Spread(data.value, insight.text),
             calls |-> <<first, second>>]

\* a field interpolated into a template literal: the text "undefined" when absent
Field(o, f) == IF Has(o, f) THEN o[f] ELSE "undefined"

\* the prompt of streamChatResponse: the persona fields, context.join("\n")
\* and, last, the message to respond to
ChatPrompt(twinPersonality, name, message, window) ==
    [name |-> name,
     interests |-> twinPersonality.interests,
     style |-> Field(twinPersonality, "style"),
     traits |-> twinPersonality.traits,
     insight |-> Field(twinPersonality, "personalityInsight"),
     context |-> window,
     message |-> message]

\* (mutant of PromptBuilds) the prompt is built whatever the persona is
PromptBuildsAlways(twinPersonality) == TRUE

\* whether streamChatResponse builds its prompt: twinPersonality.interests.join
\* and twinPersonality.traits.join throw on null and on a missing field
PromptBuilds(twinPersonality) ==
    /\ twinPersonality # NoPersona
    /\ Has(twinPersonality, "interests")
    /\ Has(twinPersonality, "traits")

\* ------------------------------------------------- inputs of the server specs
Bio == "bio"

\* the persona of the user the tables hold at the start
InitPersona == [interests |-> <<"a">>, style |-> <<"a">>, traits |-> <<"a">>,
                personalityInsight |-> <<"h">>]

PersonaFields == {"interests", "style", "traits", "personalityInsight"}

\* replies of the model service to the insight call
InsightReplies ==
    {[ok |-> FALSE, has |-> FALSE, text |-> EmptyText],
     [ok |-> TRUE, has |-> FALSE, text |-> EmptyText]} \cup
    {[ok |-> TRUE, has |-> TRUE, text |-> t] : t \in {<<"i">>, <<"j">>}}

\* replies of the model service to the structured call: the JSON objects with
\* any of the four fields, a text that is no JSON, no content, a rejection
PersonaReplies ==
    {[ok |-> FALSE, has |-> FALSE, text |-> EmptyObjectText],
     [ok |-> TRUE, has |-> FALSE, text |-> EmptyObjectText],
     [ok |-> TRUE, has |-> TRUE, text |-> [valid |-> FALSE, value |-> <<>>]]} \cup
    {[ok |-> TRUE, has |-> TRUE, text |-> [valid |-> TRUE, value |-> [f \in F |-> <<"b">>]]] :
        F \in SUBSET PersonaFields}

\* the replies the server specs draw from
SomeInsightReplies == {r \in InsightReplies : r.ok /\ r.text \in {EmptyText, <<"i">>}}
SomePersonaReplies ==
    {r \in PersonaReplies : r.ok /\ r.text.valid /\ DOMAIN r.text.value \in {{}, PersonaFields}}

\* outcomes of a Letterboxd fetch the server specs draw from: a feed of one
\* film, and a network failure
SomeLbFetches ==
    {[kind |-> "feed", items |-> <<[filmTitle |-> "T", memberRating |-> <<"4", ".", "5">>,
                                    filmGenres |-> <<"A">>]>>],
     [kind |-> "network", items |-> <<>>]}

\* outcomes of the Spotify requests the server specs draw from
SomeSpFetches ==
    {[kind |-> "ok", data |-> "", artists |-> <<[name |-> "N", genres |-> <<"G">>]>>,
      tracks |-> <<[name |-> "S", artists |-> <<"N">>, played_at |-> "t"]>>],
     [kind |-> "http", data |-> "error_object", artists |-> <<>>, tracks |-> <<>>],
     [kind |-> "http", data |-> "null", artists |-> <<>>, tracks |-> <<>>]}

\* data.status === 'success' ? data : undefined
SuccessOrUndefined(data) == IF Status(data) = "success" THEN data ELSE Undefined

\* req.session.pendingSpotifyData not set
NoPending == [unset |-> TRUE]

\* ---------------------------------------------------------------------- Init
\* an exchange persisted by an earlier run of the server (the tables outlive it)
PriorLog == <<[id |-> 1, userId |-> 1, content |-> <<"x">>, fromUser |-> TRUE],
              [id |-> 2, userId |-> 1, content |-> <<"a">>, fromUser |-> FALSE]>>

NotCancelled == "no"

NoCtxOut == [done |-> FALSE, out |-> <<>>]

\* let isFirstChunk = true; setStreamingMessage(""); userMessage is the line
\* the consumer took as the control record (empty: none taken)
NoConsumer == [isFirstChunk |-> TRUE, userMessage |-> EmptyText,
               streamingMessage |-> EmptyText]

\* nothing given yet, nothing returned yet
NoInput == [given |-> FALSE]
NoOutput == [done |-> FALSE]

\* one stored user, with or without a persona; no request, no operation
InitServer ==
    /\ users \in {<<[name |-> "Ann", twin |-> p, lb |-> NotProvided, sp |-> NotProvided,
                     exists |-> TRUE]>> : p \in {InitPersona, NoPersona}}
    /\ ops = [o \in Ops |-> IdleOp]
    /\ pendingSpotifyData = NoPending
    /\ pc = [r \in Reqs |-> "idle"]
    /\ ruser = [r \in Reqs |-> 0]
    /\ rcontent = [r \in Reqs |-> EmptyText]
    /\ user = [r \in Reqs |-> NoUser]
    /\ userMessage = [r \in Reqs |-> 0]
    /\ listed = [r \in Reqs |-> <<>>]
    /\ context = [r \in Reqs |-> <<>>]
    /\ pending = [r \in Reqs |-> EmptyText]
    /\ fullResponse = [r \in Reqs |-> EmptyText]
    /\ res = [r \in Reqs |-> <<>>]
    /\ ended = [r \in Reqs |-> FALSE]
    /\ pulls = [r \in Reqs |-> 0]
    /\ yielded = [r \in Reqs |-> <<>>]
    /\ calls = [r \in Reqs |-> 0]
    /\ stream = [r \in Reqs |-> "none"]
    /\ cancelled = [r \in Reqs |-> NotCancelled]
    /\ twinMessage = [r \in Reqs |-> 0]
    /\ ctxTurns = <<>>
    /\ ctxName = "Ann"
    /\ ctxOut = NoCtxOut
    /\ lbFetch = NoInput
    /\ lbOut = NoOutput
    /\ spFetch = NoInput
    /\ spOut = NoOutput
    /\ synIn = NoInput
    /\ synOut = NoOutput
    /\ reads = NoInput
    /\ consumer = NoConsumer

Init ==
    /\ InitServer
    /\ messages \in {<<>>, PriorLog}
    /\ users[1].twin = NoPersona => messages = <<>>

\* ------------------------------------------------- POST /api/users/:id/messages
\* (mutant of InnerCatch) the response is ended with no error record
InnerCatchSilent(r) ==
    /\ res' = res
    /\ ended' = [ended EXCEPT ![r] = TRUE]
    /\ pc' = [pc EXCEPT ![r] = "done"]

\* inner catch: if (res.writableEnded) return; res.end(JSON.stringify({error}))
InnerCatch(r) ==
    /\ res' = [res EXCEPT ![r] = IF ended[r] THEN @ ELSE Append(@, ErrorRec)]
    /\ ended' = [ended EXCEPT ![r] = TRUE]
    /\ pc' = [pc EXCEPT ![r] = "done"]

\* const user = await storage.getUser(userId); if (!user) return 404
ChatStart(r, u, c) ==
    /\ pc[r] = "idle"
    /\ \A q \in Reqs : q < r => pc[q] # "idle"
    /\ ruser' = [ruser EXCEPT ![r] = u]
    /\ rcontent' = [rcontent EXCEPT ![r] = c]
    /\ IF GetUser(u).exists
       THEN /\ user' = [user EXCEPT ![r] = Snapshot(GetUser(u))]
            /\ pc' = [pc EXCEPT ![r] = "saveUser"]
            /\ UNCHANGED <<res, ended>>
       ELSE /\ res' = [res EXCEPT ![r] = Append(@, JsonRec(404))]
            /\ ended' = [ended EXCEPT ![r] = TRUE]
            /\ pc' = [pc EXCEPT ![r] = "done"]
            /\ UNCHANGED user
    /\ UNCHANGED <<users, messages, userMessage, listed, context, pending, fullResponse,
                   pulls, yielded, calls, stream, cancelled, twinMessage, opVars, fnVars>>

\* const userMessage = await storage.addMessage(userId, content, true)
ChatSaveUser(r) ==
    /\ pc[r] = "saveUser"
    /\ AddMessage(ruser[r], rcontent[r], TRUE)
    /\ userMessage' = [userMessage EXCEPT ![r] = NewMessage(ruser[r], rcontent[r], TRUE).id]
    /\ pc' = [pc EXCEPT ![r] = "control"]
    /\ UNCHANGED <<users, ruser, rcontent, user, listed, context, pending, fullResponse,
                   res, ended, pulls, yielded, calls, stream, cancelled, twinMessage, opVars, fnVars>>

\* addMessage rejects: outer catch, nothing written yet: res.status(400).json({message})
ChatSaveUserFail(r) ==
    /\ pc[r] = "saveUser"
    /\ res' = [res EXCEPT ![r] = Append(@, JsonRec(400))]
    /\ ended' = [ended EXCEPT ![r] = TRUE]
    /\ pc' = [pc EXCEPT ![r] = "done"]
    /\ UNCHANGED <<users, messages, ruser, rcontent, user, userMessage, listed, context,
                   pending, fullResponse, pulls, yielded, calls, stream, cancelled,
                   twinMessage, opVars, fnVars>>

\* res.setHeader(...); res.write(JSON.stringify({ userMessage }) + '\n')
ChatControl(r) ==
    /\ pc[r] = "control"
    /\ res' = [res EXCEPT ![r] = Append(@, ControlRec(userMessage[r]))]
    /\ pc' = [pc EXCEPT ![r] = "list"]
    /\ UNCHANGED <<users, messages, ruser, rcontent, user, userMessage, listed, context,
                   pending, fullResponse, ended, pulls, yielded, calls, stream, cancelled,
                   twinMessage, opVars, fnVars>>

\* (mutant of ChatList) the turns are those stored before the user turn was persisted
ChatListStale(r) ==
    /\ pc[r] = "list"
    /\ \E rows \in PermSeqs({m \in Range(messages) :
                                m.userId = ruser[r] /\ m.id < userMessage[r]}) :
          /\ listed' = [listed EXCEPT ![r] = rows]
          /\ context' = [context EXCEPT ![r] = SelectContext(rows, user[r].name)]
    /\ pc' = [pc EXCEPT ![r] = "open"]
    /\ UNCHANGED <<users, messages, ruser, rcontent, user, userMessage, pending,
                   fullResponse, res, ended, pulls, yielded, calls, stream, cancelled,
                   twinMessage, opVars, fnVars>>

\* const messages = await storage.getMessages(userId); const context = ...
ChatList(r) ==
    /\ pc[r] = "list"
    /\ \E rows \in GetMessages(ruser[r]) :
          /\ listed' = [listed EXCEPT ![r] = rows]
          /\ context' = [context EXCEPT ![r] = SelectContext(rows, user[r].name)]
    /\ pc' = [pc EXCEPT ![r] = "open"]
    /\ UNCHANGED <<users, messages, ruser, rcontent, user, userMessage, pending,
                   fullResponse, res, ended, pulls, yielded, calls, stream, cancelled,
                   twinMessage, opVars, fnVars>>

\* getMessages rejects: outer catch; the response is not ended, so
\* res.status(400).json() runs with the headers already sent and throws
\* (ERR_HTTP_HEADERS_SENT): nothing more is written and the response stays open
ChatListFail(r) ==
    /\ pc[r] = "list"
    /\ pc' = [pc EXCEPT ![r] = "hung"]
    /\ UNCHANGED <<users, messages, ruser, rcontent, user, userMessage, listed, context,
                   pending, fullResponse, res, ended, pulls, yielded, calls, stream,
                   cancelled, twinMessage, opVars, fnVars>>

\* first next() of the generator: the prompt is built, then
\* openai.chat.completions.create({stream: true})
ChatOpen(r) ==
    /\ pc[r] = "open"
    /\ PromptBuilds(user[r].twin)
    /\ calls' = [calls EXCEPT ![r] = @ + 1]
    /\ stream' = [stream EXCEPT ![r] = "open"]
    /\ pc' = [pc EXCEPT ![r] = "pull"]
    /\ listed' = [listed EXCEPT ![r] = <<>>]      \* locals dead once the prompt is built
    /\ context' = [context EXCEPT ![r] = <<>>]
    /\ UNCHANGED <<users, messages, ruser, rcontent, user, userMessage, pending,
                   fullResponse, res, ended, pulls, yielded, cancelled, twinMessage, opVars, fnVars>>

\* the prompt throws or the create call rejects: inner catch
ChatOpenFail(r) ==
    /\ pc[r] = "open"
    /\ IF ~PromptBuilds(user[r].twin)
       THEN UNCHANGED <<calls, stream>>
       ELSE /\ calls' = [calls EXCEPT ![r] = @ + 1]
            /\ stream' = [stream EXCEPT ![r] = "error"]
    /\ InnerCatch(r)
    /\ listed' = [listed EXCEPT ![r] = <<>>]
    /\ context' = [context EXCEPT ![r] = <<>>]
    /\ UNCHANGED <<users, messages, ruser, rcontent, user, userMessage, pending,
                   fullResponse, pulls, yielded, cancelled, twinMessage, opVars, fnVars>>

\* the chunks the stream of request r has delivered: its answered requests,
\* less the one answered by the end or the failure of the stream
ChunksOf(r) == IF stream[r] \in {"end", "error"} /\ pulls[r] > 0 THEN pulls[r] - 1 ELSE pulls[r]

RECURSIVE Delivered(_)
\* the chunks delivered so far to requests 1..n
Delivered(n) == IF n = 0 THEN 0 ELSE ChunksOf(n) + Delivered(n - 1)

\* for await (const chunk of stream): the next chunk arrives;
\* const content = chunk.choices[0]?.delta?.content; if (content) yield content
ChatPull(r, chunk) ==
    /\ pc[r] = "pull"
    /\ Delivered(NumReqs) < MaxChunks
    /\ pulls' = [pulls EXCEPT ![r] = @ + 1]
    /\ IF Truthy(chunk)
       THEN /\ pending' = [pending EXCEPT ![r] = chunk.content]
            /\ yielded' = [yielded EXCEPT ![r] = Append(@, chunk.content)]
            /\ pc' = [pc EXCEPT ![r] = "write"]
       ELSE UNCHANGED <<pending, yielded, pc>>
    /\ UNCHANGED <<users, messages, ruser, rcontent, user, userMessage, listed, context,
                   fullResponse, res, ended, calls, stream, cancelled, twinMessage, opVars, fnVars>>

\* the upstream stream ends: the generator returns and the loop exits
ChatPullEnd(r) ==
    /\ pc[r] = "pull"
    /\ pulls' = [pulls EXCEPT ![r] = @ + 1]
    /\ stream' = [stream EXCEPT ![r] = "end"]
    /\ pc' = [pc EXCEPT ![r] = "saveTwin"]
    /\ UNCHANGED <<users, messages, ruser, rcontent, user, userMessage, listed, context,
                   pending, fullResponse, res, ended, yielded, calls, cancelled,
                   twinMessage, opVars, fnVars>>

\* (mutant of ChatPullError) a failed stream is opened again
ChatPullErrorRetrying(r) ==
    /\ pc[r] = "pull"
    /\ pulls' = [pulls EXCEPT ![r] = @ + 1]
    /\ calls' = [calls EXCEPT ![r] = @ + 1]
    /\ UNCHANGED <<users, messages, pc, ruser, rcontent, user, userMessage, listed, context,
                   pending, fullResponse, res, ended, yielded, stream, cancelled,
                   twinMessage, opVars, fnVars>>

\* the upstream stream fails: the generator throws into the loop: inner catch
ChatPullError(r) ==
    /\ pc[r] = "pull"
    /\ pulls' = [pulls EXCEPT ![r] = @ + 1]
    /\ stream' = [stream EXCEPT ![r] = "error"]
    /\ InnerCatch(r)
    /\ UNCHANGED <<users, messages, ruser, rcontent, user, userMessage, listed, context,
                   pending, fullResponse, yielded, calls, cancelled, twinMessage, opVars, fnVars>>

\* (mutant of ChatWrite) every request writes to the response of request 1
ChatWriteShared(r) ==
    /\ pc[r] = "write"
    /\ res' = [res EXCEPT ![1] = Append(@, FragRec(pending[r]))]
    /\ fullResponse' = [fullResponse EXCEPT ![r] = Accumulate(@, pending[r])]
    /\ pending' = [pending EXCEPT ![r] = EmptyText]
    /\ pc' = [pc EXCEPT ![r] = "pull"]
    /\ UNCHANGED <<users, messages, ruser, rcontent, user, userMessage, listed, context,
                   ended, pulls, yielded, calls, stream, cancelled, twinMessage, opVars, fnVars>>

\* loop body: res.write(chunk); fullResponse += chunk
ChatWrite(r) ==
    /\ pc[r] = "write"
    /\ res' = [res EXCEPT ![r] = Append(@, FragRec(pending[r]))]
    /\ fullResponse' = [fullResponse EXCEPT ![r] = Accumulate(@, pending[r])]
    /\ pending' = [pending EXCEPT ![r] = EmptyText]
    /\ pc' = [pc EXCEPT ![r] = "pull"]
    /\ UNCHANGED <<users, messages, ruser, rcontent, user, userMessage, listed, context,
                   ended, pulls, yielded, calls, stream, cancelled, twinMessage, opVars, fnVars>>

\* await storage.addMessage(userId, fullResponse, false); res.end()
ChatSaveTwin(r) ==
    /\ pc[r] = "saveTwin"
    /\ AddMessage(ruser[r], fullResponse[r], FALSE)
    /\ twinMessage' = [twinMessage EXCEPT ![r] = NewMessage(ruser[r], fullResponse[r], FALSE).id]
    /\ ended' = [ended EXCEPT ![r] = TRUE]
    /\ pc' = [pc EXCEPT ![r] = "done"]
    /\ UNCHANGED <<users, ruser, rcontent, user, userMessage, listed, context, pending,
                   fullResponse, res, pulls, yielded, calls, stream, cancelled, opVars, fnVars>>

\* addMessage rejects inside the inner try: inner catch
ChatSaveTwinFail(r) ==
    /\ pc[r] = "saveTwin"
    /\ InnerCatch(r)
    /\ UNCHANGED <<users, messages, ruser, rcontent, user, userMessage, listed, context,
                   pending, fullResponse, pulls, yielded, calls, stream, cancelled,
                   twinMessage, opVars, fnVars>>

\* the consumer disconnects while the request is in flight; the handler
\* registers no 'close' listener and reads no abort signal
ClientDisconnect(r) ==
    /\ pc[r] \notin {"idle", "done"}
    /\ cancelled[r] = NotCancelled
    /\ cancelled' = [cancelled EXCEPT ![r] =
                       IF stream[r] = "none" THEN "before"
                       ELSE IF stream[r] # "open" THEN "after"
                       ELSE IF FragsOf(res[r]) = <<>> THEN "open" ELSE "streaming"]
    /\ UNCHANGED <<users, messages, pc, ruser, rcontent, user, userMessage, listed,
                   context, pending, fullResponse, res, ended, pulls, yielded, calls,
                   stream, twinMessage, opVars, fnVars>>

\* ------------------------------------------------------------- user routes
\* storage.createUser: insert with the defaults of lines 34-38
CreateUser(name) ==
    users' = Append(users, [name |-> name, twin |-> NoPersona, lb |-> NotProvided,
                            sp |-> NotProvided, exists |-> TRUE])

\* storage.updateUser: set name and the two data columns (and, when the caller
\* spreads a whole user row, twinPersonality too)
UpdateUser(id, name, lb, sp, twin) ==
    users' = [users EXCEPT ![id] = [@ EXCEPT !.name = name, !.lb = lb, !.sp = sp, !.twin = twin]]

\* (mutant of UpdateUserTwin) the new persona is merged into the stored one
UpdateUserTwinMerging(id, personality) ==
    users' = [users EXCEPT ![id] = [@ EXCEPT !.twin =
                 [f \in DOMAIN @ \cup DOMAIN personality |->
                     IF f \in DOMAIN personality THEN personality[f] ELSE @[f]]]]

\* storage.updateUserTwin: set({ twinPersonality: personality })
UpdateUserTwin(id, personality) ==
    users' = [users EXCEPT ![id] = [@ EXCEPT !.twin = personality]]

\* POST /api/users: insertUserSchema.parse, storage.createUser
OpCreate(o, name, url) ==
    /\ ops[o].pc = "idle"
    /\ \A q \in Ops : q < o => ops[q].pc # "idle"
    /\ CreateUser(name)
    /\ ops' = [ops EXCEPT ![o] = [@ EXCEPT !.pc = "update", !.kind = "create",
                                            !.id = Len(users) + 1, !.name = name, !.url = url]]
    /\ UNCHANGED <<messages, chatVars, pendingSpotifyData, fnVars>>

\* PATCH /api/users/:id: insertUserSchema.parse, storage.getUser, 404 if none
OpPatch(o, id, name, url) ==
    /\ ops[o].pc = "idle"
    /\ \A q \in Ops : q < o => ops[q].pc # "idle"
    /\ ops' = [ops EXCEPT ![o] =
                 IF GetUser(id).exists
                 THEN [@ EXCEPT !.pc = "update", !.kind = "patch", !.id = id,
                                !.name = name, !.url = url]
                 ELSE Finished("patch", "404")]
    /\ UNCHANGED <<users, messages, chatVars, pendingSpotifyData, fnVars>>

\* (mutant of SpotifyStub) the error field is stored also when it is undefined
SpotifyStubRaw(spotifyUrl) ==
    [status |-> IF spotifyUrl THEN "error" ELSE "not_provided",
     error |-> IF spotifyUrl THEN "Spotify integration not implemented yet" ELSE "undefined"]

\* PATCH: { status: userData.spotifyUrl ? 'error' : 'not_provided',
\*          error: userData.spotifyUrl ? '...' : undefined }
\* (the parsed body carries no spotifyUrl: insertUserSchema picks name,
\* letterboxdUrl and bio); a field that is undefined is not serialized
SpotifyStub(spotifyUrl) ==
    IF spotifyUrl THEN [status |-> "error", error |-> "Spotify integration not implemented yet"]
    ELSE [status |-> "not_provided"]

\* (mutant of OpUpdate) a Letterboxd fetch that fails rejects: catch, res.status(400)
OpUpdateBlocking(o, fetch) ==
    /\ ops[o].pc = "update"
    /\ LET letterboxdData == IF ops[o].url THEN GetLetterboxdProfile(fetch) ELSE NotProvided
           spotifyData == IF ops[o].kind = "patch" THEN SpotifyStub(FALSE) ELSE NotProvided
       IN IF Status(letterboxdData) = "error"
          THEN /\ ops' = [ops EXCEPT ![o] = Finished(@.kind, "400")]
               /\ UNCHANGED users
          ELSE /\ UpdateUser(ops[o].id, ops[o].name, letterboxdData, spotifyData,
                             users[ops[o].id].twin)
               /\ ops' = [ops EXCEPT ![o] = [@ EXCEPT !.pc = "synth", !.lb = letterboxdData]]
    /\ UNCHANGED <<messages, chatVars, pendingSpotifyData, fnVars>>

\* POST and PATCH: letterboxdData = url ? await getLetterboxdProfile(url) : not_provided;
\* spotifyData = not_provided (POST) or the stub (PATCH);
\* storage.updateUser(id, {...userData, letterboxdData, spotifyData})
OpUpdate(o, fetch) ==
    /\ ops[o].pc = "update"
    /\ LET letterboxdData == IF ops[o].url THEN GetLetterboxdProfile(fetch) ELSE NotProvided
           spotifyData == IF ops[o].kind = "patch" THEN SpotifyStub(FALSE) ELSE NotProvided
       IN /\ UpdateUser(ops[o].id, ops[o].name, letterboxdData, spotifyData,
                        users[ops[o].id].twin)
          /\ ops' = [ops EXCEPT ![o] = [@ EXCEPT !.pc = "synth", !.lb = letterboxdData]]
    /\ UNCHANGED <<messages, chatVars, pendingSpotifyData, fnVars>>

\* (mutant of OpSynth) the stored Spotify data is passed to the synthesis
OpSynthWithStored(o, insightReply, personaReply) ==
    /\ ops[o].pc = "synth"
    /\ LET twin == GenerateTwinPersonality(ops[o].name, Bio, SuccessOrUndefined(ops[o].lb),
                                           SuccessOrUndefined(users[ops[o].id].sp),
                                           insightReply, personaReply)
       IN /\ twin.ok
          /\ UpdateUserTwin(ops[o].id, twin.persona)
          /\ ops' = [ops EXCEPT ![o] = FinishedAfter(@.kind, "200", twin.calls)]
    /\ UNCHANGED <<messages, chatVars, pendingSpotifyData, fnVars>>

\* POST and PATCH: generateTwinPersonality(name, bio, success ? letterboxdData : undefined)
\* resolves; storage.updateUserTwin; res.json
OpSynth(o, insightReply, personaReply) ==
    /\ ops[o].pc = "synth"
    /\ LET twin == GenerateTwinPersonality(ops[o].name, Bio, SuccessOrUndefined(ops[o].lb),
                                           Undefined, insightReply, personaReply)
       IN /\ twin.ok
          /\ UpdateUserTwin(ops[o].id, twin.persona)
          /\ ops' = [ops EXCEPT ![o] = FinishedAfter(@.kind, "200", twin.calls)]
    /\ UNCHANGED <<messages, chatVars, pendingSpotifyData, fnVars>>

\* POST and PATCH: generateTwinPersonality rejects (at its first or its second
\* model call), or updateUserTwin rejects: catch, res.status(400)
OpSynthFail(o, insightReply, personaReply) ==
    /\ ops[o].pc = "synth"
    /\ LET twin == GenerateTwinPersonality(ops[o].name, Bio, SuccessOrUndefined(ops[o].lb),
                                           Undefined, insightReply, personaReply)
       IN ops' = [ops EXCEPT ![o] = FinishedAfter(@.kind, "400", twin.calls)]
    /\ UNCHANGED <<users, messages, chatVars, pendingSpotifyData, fnVars>>

\* GET /api/callback/spotify: getAccessToken, getUserData, then the session
\* (state = 'pending') or storage.getUser(Number(userId))
OpCallback(o, pendingState, id, fetch) ==
    /\ ops[o].pc = "idle"
    /\ \A q \in Ops : q < o => ops[q].pc # "idle"
    /\ GetUserData(fetch) # Rejects
    /\ IF pendingState
       THEN /\ pendingSpotifyData' = GetUserData(fetch)
            /\ ops' = [ops EXCEPT ![o] = Finished("callback", "connected")]
       ELSE /\ UNCHANGED pendingSpotifyData
            /\ ops' = [ops EXCEPT ![o] =
                         IF GetUser(id).exists
                         THEN [@ EXCEPT !.pc = "cbSynth", !.kind = "callback", !.id = id,
                                        !.sp = GetUserData(fetch), !.snap = GetUser(id)]
                         ELSE Finished("callback", "user_not_found")]
    /\ UNCHANGED <<users, messages, chatVars, fnVars>>

\* callback: an error or missing parameter in the query, or getAccessToken or
\* getUserData rejects
OpCallbackFail(o) ==
    /\ ops[o].pc = "idle"
    /\ \A q \in Ops : q < o => ops[q].pc # "idle"
    /\ ops' = [ops EXCEPT ![o] = Finished("callback", "spotify_auth_failed")]
    /\ UNCHANGED <<users, messages, chatVars, pendingSpotifyData, fnVars>>

\* callback: generateTwinPersonality(user.name, user.bio, success ? user.letterboxdData
\* : undefined, success ? spotifyData : undefined) resolves;
\* storage.updateUser(user.id, {...user, spotifyData})
OpCbSynth(o, insightReply, personaReply) ==
    /\ ops[o].pc = "cbSynth"
    /\ LET twin == GenerateTwinPersonality(ops[o].snap.name, Bio,
                                           SuccessOrUndefined(ops[o].snap.lb),
                                           SuccessOrUndefined(ops[o].sp),
                                           insightReply, personaReply)
       IN /\ twin.ok
          /\ ops' = [ops EXCEPT ![o] = [@ EXCEPT !.pc = "cbTwin", !.twin = twin.persona,
                                                  !.music = MusicOf(twin.calls)]]
    /\ UpdateUser(ops[o].id, ops[o].snap.name, ops[o].snap.lb, ops[o].sp, ops[o].snap.twin)
    /\ UNCHANGED <<messages, chatVars, pendingSpotifyData, fnVars>>

\* (mutant of OpCbSynthFail) updateUser is called before generateTwinPersonality
OpCbSynthFailStored(o, insightReply, personaReply) ==
    /\ ops[o].pc = "cbSynth"
    /\ LET twin == GenerateTwinPersonality(ops[o].snap.name, Bio,
                                           SuccessOrUndefined(ops[o].snap.lb),
                                           SuccessOrUndefined(ops[o].sp),
                                           insightReply, personaReply)
       IN ops' = [ops EXCEPT ![o] =
                    FinishedAfter("callback", "spotify_auth_failed", twin.calls)]
    /\ UpdateUser(ops[o].id, ops[o].snap.name, ops[o].snap.lb, ops[o].sp, ops[o].snap.twin)
    /\ UNCHANGED <<messages, chatVars, pendingSpotifyData, fnVars>>

\* callback: generateTwinPersonality rejects (at its first or its second model
\* call), or updateUser rejects: catch, redirect
OpCbSynthFail(o, insightReply, personaReply) ==
    /\ ops[o].pc = "cbSynth"
    /\ LET twin == GenerateTwinPersonality(ops[o].snap.name, Bio,
                                           SuccessOrUndefined(ops[o].snap.lb),
                                           SuccessOrUndefined(ops[o].sp),
                                           insightReply, personaReply)
       IN ops' = [ops EXCEPT ![o] =
                    FinishedAfter("callback", "spotify_auth_failed", twin.calls)]
    /\ UNCHANGED <<users, messages, chatVars, pendingSpotifyData, fnVars>>

\* callback: storage.updateUserTwin(user.id, twin); res.redirect(`/chat/${userId}`)
OpCbTwin(o) ==
    /\ ops[o].pc = "cbTwin"
    /\ UpdateUserTwin(ops[o].id, ops[o].twin)
    /\ ops' = [ops EXCEPT ![o] = [Finished("callback", "chat") EXCEPT !.music = ops[o].music]]
    /\ UNCHANGED <<messages, chatVars, pendingSpotifyData, fnVars>>

\* the steps of the chat requests R
NextChatOf(R) ==
    \/ \E r \in R, u \in 1..(Len(users) + 1), c \in Contents : ChatStart(r, u, c)
    \/ \E r \in R : ChatSaveUser(r)
    \/ \E r \in R : ChatSaveUserFail(r)
    \/ \E r \in R : ChatControl(r)
    \/ \E r \in R : ChatList(r)
    \/ \E r \in R : ChatListFail(r)
    \/ \E r \in R : ChatOpen(r)
    \/ \E r \in R : ChatOpenFail(r)
    \/ \E r \in R, chunk \in Chunks : ChatPull(r, chunk)
    \/ \E r \in R : ChatPullEnd(r)
    \/ \E r \in R : ChatPullError(r)
    \/ \E r \in R : ChatWrite(r)
    \/ \E r \in R : ChatSaveTwin(r)
    \/ \E r \in R : ChatSaveTwinFail(r)
    \/ \E r \in R : ClientDisconnect(r)

\* the steps of the user operations O
NextOpsOf(O) ==
    \/ \E o \in O, name \in Names, url \in BOOLEAN : OpCreate(o, name, url)
    \/ \E o \in O, id \in 1..(Len(users) + 1), name \in Names, url \in BOOLEAN :
          OpPatch(o, id, name, url)
    \/ \E o \in O, fetch \in SomeLbFetches : OpUpdate(o, fetch)
    \/ \E o \in O, ir \in SomeInsightReplies, pr \in SomePersonaReplies : OpSynth(o, ir, pr)
    \/ \E o \in O, ir \in InsightReplies, pr \in SomePersonaReplies : OpSynthFail(o, ir, pr)
    \/ \E o \in O, pendingState \in BOOLEAN, id \in 1..(Len(users) + 1),
          fetch \in SomeSpFetches : OpCallback(o, pendingState, id, fetch)
    \/ \E o \in O : OpCallbackFail(o)
    \/ \E o \in O, ir \in SomeInsightReplies, pr \in SomePersonaReplies :
          OpCbSynth(o, ir, pr)
    \/ \E o \in O, ir \in InsightReplies, pr \in SomePersonaReplies :
          OpCbSynthFail(o, ir, pr)
    \/ \E o \in O : OpCbTwin(o)

NextChat == NextChatOf(1..MaxReq)

NextOps == NextOpsOf(1..MaxOps)

Next == NextChat \/ NextOps

\* the whole server: chat requests and user operations
Spec == Init /\ [][Next]_vars

\* the chat route alone, over a users table no operation changes
SpecChat == Init /\ [][NextChat]_vars

\* a step of the handler of request r after it found the user: the awaited
\* call settles and the handler runs on
HandlerStep(r) ==
    \/ ChatSaveUser(r) \/ ChatSaveUserFail(r)
    \/ ChatControl(r)
    \/ ChatList(r) \/ ChatListFail(r)
    \/ ChatOpen(r) \/ ChatOpenFail(r)
    \/ (\E chunk \in Chunks : ChatPull(r, chunk)) \/ ChatPullEnd(r) \/ ChatPullError(r)
    \/ ChatWrite(r)
    \/ ChatSaveTwin(r) \/ ChatSaveTwinFail(r)

\* the chat route when every awaited call settles (storage answers or rejects,
\* the upstream stream delivers, ends or fails) and the event loop resumes the
\* handler; the upstream stream is finite (MaxChunks)
SpecLive == Init /\ [][NextChat]_vars /\ \A r \in 1..MaxReq : WF_vars(HandlerStep(r))

\* the chat route with MaxConc requests in flight
NextConc == NextChatOf(1..MaxConc)

\* the tables hold one user with a persona and no turn
InitOne ==
    /\ Init
    /\ users[1].twin = InitPersona
    /\ messages = <<>>

SpecConc == InitOne /\ [][NextConc]_vars

\* the tables hold one user with a persona and a log of three turns: an
\* exchange and a user turn that got no reply
InitLog ==
    /\ InitServer
    /\ users[1].twin = InitPersona
    /\ messages = Append(PriorLog, [id |-> 3, userId |-> 1, content |-> <<"x">>,
                                    fromUser |-> TRUE])

\* the chat route with MaxConc requests in flight, over a log of three turns
SpecLog == InitLog /\ [][NextConc]_vars

\* the user routes alone, with MaxUserOps operations in flight
NextUsers == NextOpsOf(1..MaxUserOps)

SpecUsers == Init /\ [][NextUsers]_vars

\* ------------------------------------------------------- context selection, alone
Digits == <<"1", "2", "3", "4", "5", "6", "7", "8", "9", "10">>

\* the turn lists of a user in creation order: turn i has id i and text <<i>>
TurnLists ==
    UNION {{[i \in 1..n |-> [id |-> i, userId |-> 1, content |-> <<Digits[i]>>,
                             fromUser |-> f[i]]] : f \in [1..n -> BOOLEAN]} : n \in 0..MaxCtxLog}

InitCtx ==
    /\ Init
    /\ users[1].twin = InitPersona
    /\ messages = <<>>

CtxChoose(turns, name) ==
    /\ ctxTurns = <<>>
    /\ ~ctxOut.done
    /\ ctxTurns' = turns
    /\ ctxName' = name
    /\ UNCHANGED <<users, messages, chatVars, opVars, ctxOut, profileVars, synVars,
                   clientVars>>

CtxSelect ==
    /\ ~ctxOut.done
    /\ ctxOut' = [done |-> TRUE, out |-> SelectContext(ctxTurns, ctxName)]
    /\ UNCHANGED <<users, messages, chatVars, opVars, ctxTurns, ctxName, profileVars, synVars,
                   clientVars>>

NextCtx ==
    \/ \E turns \in TurnLists, name \in Names : CtxChoose(turns, name)
    \/ CtxSelect

SpecCtx == InitCtx /\ [][NextCtx]_vars

\* ------------------------------------------------- profile normalizers, alone
Titles == <<"T1", "T2", "T3", "T4", "T5", "T6", "T7", "T8", "T9", "T10">>

FiveStars == <<"5", ".", "0">>

\* values of letterboxd:memberRating
Ratings == {<<"5">>, <<"4", ".", "5">>, <<"4", ".", "0">>, <<"3">>}

\* values of letterboxd:filmGenres
RawGenres == {<<"A">>, <<"A", ",", "B">>, <<"A", ",", " ", "C">>, <<"B">>, <<"2">>,
              <<"1", "0", ",", "2">>, <<"A", ",", "B", ",", "C", ",", "D", ",", "E", ",", "F">>}

\* the i-th item of a feed: titled Titles[i], with or without a rating
RatedItems(i) ==
    {[filmTitle |-> Titles[i]]} \cup {[filmTitle |-> Titles[i], memberRating |-> r] : r \in Ratings}

\* the i-th item of a feed: titled Titles[i], with or without genres
TaggedItems(i) ==
    {[filmTitle |-> Titles[i]]} \cup {[filmTitle |-> Titles[i], filmGenres |-> g] : g \in RawGenres}

\* items that yield no rating: no title, an empty title, a genres element
\* that is no string
OddItems ==
    {[memberRating |-> FiveStars, filmGenres |-> <<"A">>],
     [filmTitle |-> "", memberRating |-> FiveStars],
     [filmTitle |-> "T", memberRating |-> FiveStars, filmGenresObj |-> TRUE],
     [filmTitle |-> "T", memberRating |-> FiveStars, filmGenres |-> <<"B">>]}

Feed(items) == [kind |-> "feed", items |-> items]

\* feeds longer than the caps: n top-rated films, or n unrated films and then
\* a top-rated one, or the ten titles and one more
LongFeeds ==
    {Feed([i \in 1..n |-> [filmTitle |-> "T", memberRating |-> FiveStars]]) :
        n \in {RecentRatingsMax + 1, ExaminedItems + 1}} \cup
    {Feed([i \in 1..(Len(Titles) + 1) |->
             [filmTitle |-> IF i <= Len(Titles) THEN Titles[i] ELSE "U"]])} \cup
    {Feed([i \in 1..(n + 1) |-> IF i <= n THEN [filmTitle |-> "T"]
                                 ELSE [filmTitle |-> "U", memberRating |-> FiveStars]]) :
        n \in {ExaminedItems - 1, ExaminedItems}}

RECURSIVE RatedFeeds(_)
\* the feeds of n titled items, each with or without a rating
RatedFeeds(n) ==
    IF n = 0 THEN {<<>>} ELSE {Append(f, x) : f \in RatedFeeds(n - 1), x \in RatedItems(n)}

RECURSIVE TaggedFeeds(_)
\* the feeds of n titled items, each with or without genres
TaggedFeeds(n) ==
    IF n = 0 THEN {<<>>} ELSE {Append(f, x) : f \in TaggedFeeds(n - 1), x \in TaggedItems(n)}

\* outcomes in which the URL check, the fetch or the parse fails
LbFailures ==
    {[kind |-> k, items |-> <<>>] :
        k \in {"invalid_url", "network", "http_body", "http_no_body", "not_text", "bad_xml",
               "no_channel"}}

\* feeds of one or two items that yield no rating
OddFeeds == {Feed(items) : items \in UNION {[1..n -> OddItems] : n \in 1..2}}

\* artists and tracks of the Spotify responses
Artists == {[name |-> "N1", genres |-> <<"G1">>], [name |-> "N2", genres |-> <<"G2", "G1">>],
            [name |-> "N3"]}
Tracks == {[name |-> "S1", artists |-> <<"N1", "N2">>, played_at |-> "t"],
           [name |-> "S2", artists |-> <<>>, played_at |-> "t"]}

\* outcomes in which a request of getUserData fails
SpFailures ==
    {[kind |-> "network", data |-> "", artists |-> <<>>, tracks |-> <<>>]} \cup
    {[kind |-> "http", data |-> d, artists |-> <<>>, tracks |-> <<>>] :
        d \in {"error_object", "error_string", "", "null"}}

\* outcomes in which both requests resolve, with n artists and m tracks
SpListings(n, m) ==
    {[kind |-> "ok", data |-> "", artists |-> a, tracks |-> t] :
        a \in [1..n -> Artists], t \in [1..m -> Tracks]}

\* listings longer than the caps: n artists, each with a genre of its own and
\* one it shares with others, and m tracks
LongListings ==
    LET N == <<"N1", "N2", "N3", "N4", "N5", "N6", "N7">>
        G == <<"G1", "G2", "G3", "G4", "G5", "G6", "G7">>
        S == <<"S1", "S2", "S3", "S4", "S5", "S6", "S7", "S8", "S9", "S10", "S11">>
    IN {[kind |-> "ok", data |-> "",
         artists |-> [i \in 1..n |-> [name |-> N[i], genres |-> <<G[(i % 3) + 1], G[i]>>]],
         tracks |-> [j \in 1..m |-> [name |-> S[j], artists |-> <<N[(j % 7) + 1]>>,
                                     played_at |-> "t"]]] :
           n \in {TopArtistsMax, TopArtistsMax + 2},
           m \in {RecentTracksMax, RecentTracksMax + 1}}

\* no outcome was given to a normalizer yet
NothingGiven == ~lbFetch.given /\ ~spFetch.given

LbChoose(fetch) ==
    /\ NothingGiven
    /\ lbFetch' = [given |-> TRUE, fetch |-> fetch]
    /\ UNCHANGED <<users, messages, chatVars, opVars, ctxVars, lbOut, spFetch, spOut, synVars,
                   clientVars>>

\* await getLetterboxdProfile(url)
LbNormalize ==
    /\ lbFetch.given /\ ~lbOut.done
    /\ lbOut' = [done |-> TRUE, value |-> GetLetterboxdProfile(lbFetch.fetch)]
    /\ UNCHANGED <<users, messages, chatVars, opVars, ctxVars, lbFetch, spFetch, spOut, synVars,
                   clientVars>>

SpChoose(fetch) ==
    /\ NothingGiven
    /\ spFetch' = [given |-> TRUE, fetch |-> fetch]
    /\ UNCHANGED <<users, messages, chatVars, opVars, ctxVars, lbFetch, lbOut, spOut, synVars,
                   clientVars>>

\* await spotifyClient.getUserData(accessToken)
SpNormalize ==
    /\ spFetch.given /\ ~spOut.done
    /\ spOut' = [done |-> TRUE, value |-> GetUserData(spFetch.fetch)]
    /\ UNCHANGED <<users, messages, chatVars, opVars, ctxVars, lbFetch, lbOut, spFetch, synVars,
                   clientVars>>

NextProfile ==
    \/ /\ NothingGiven
       /\ \/ \E fetch \in LbFailures \cup OddFeeds \cup LongFeeds : LbChoose(fetch)
          \/ \E n \in 0..MaxRated : \E items \in RatedFeeds(n) : LbChoose(Feed(items))
          \/ \E n \in 0..MaxTagged : \E items \in TaggedFeeds(n) : LbChoose(Feed(items))
          \/ \E fetch \in SpFailures \cup LongListings : SpChoose(fetch)
          \/ \E n \in 0..MaxListed, m \in 0..MaxListed :
                \E fetch \in SpListings(n, m) : SpChoose(fetch)
    \/ LbNormalize
    \/ SpNormalize

SpecProfile == InitOne /\ [][NextProfile]_vars

\* ---------------------------------------------------------- synthesis, alone
LbSuccess == GetLetterboxdProfile(CHOOSE f \in SomeLbFetches : f.kind = "feed")
SpSuccess == GetUserData(CHOOSE f \in SomeSpFetches : f.kind = "ok")

\* values of the letterboxdData argument: undefined, the three variants, and
\* an error value that still carries data fields
LbSources ==
    {Undefined, NotProvided, LbError("message (name)"), LbSuccess,
     [LbSuccess EXCEPT !.status = "error"]}

\* values of the spotifyData argument
SpSources ==
    {Undefined, NotProvided, SpError("message"), SpSuccess,
     [SpSuccess EXCEPT !.status = "not_provided"]}

SynChoose(name, lb, sp, insightReply, personaReply) ==
    /\ ~synIn.given
    /\ synIn' = [given |-> TRUE, name |-> name, lb |-> lb, sp |-> sp,
                 insightReply |-> insightReply, personaReply |-> personaReply]
    /\ UNCHANGED <<users, messages, chatVars, opVars, ctxVars, profileVars, synOut,
                   clientVars>>

\* const twin = await generateTwinPersonality(name, bio, letterboxdData, spotifyData)
SynGenerate ==
    /\ synIn.given /\ ~synOut.done
    /\ synOut' = [done |-> TRUE,
                  value |-> GenerateTwinPersonality(synIn.name, Bio, synIn.lb, synIn.sp,
                                                    synIn.insightReply, synIn.personaReply)]
    /\ UNCHANGED <<users, messages, chatVars, opVars, ctxVars, profileVars, synIn,
                   clientVars>>

NextSynth ==
    \/ \E name \in Names, lb \in LbSources, sp \in SpSources, ir \in InsightReplies,
          pr \in PersonaReplies : SynChoose(name, lb, sp, ir, pr)
    \/ SynGenerate

SpecSynth == InitOne /\ [][NextSynth]_vars

\* ------------------------------------------------------- client consumer, alone
\* JSON.stringify({ userMessage }): one line, no newline inside
ControlLine == <<"{", "m", "}">>

Newline == "\n"

\* the reply bytes of a response: texts over a letter and the newline
RECURSIVE Replies(_)
Replies(n) ==
    IF n = 0 THEN {EmptyText}
    ELSE Replies(n - 1) \cup {Append(t, c) : t \in Replies(n - 1), c \in {"a", Newline}}

\* what the server writes: the control line, '\n', then the reply bytes
Body(reply) == ControlLine \o <<Newline>> \o reply

RECURSIVE Splits(_)
\* every way the transport delivers a text as consecutive non-empty read chunks
Splits(text) ==
    IF text = <<>> THEN {<<>>}
    ELSE UNION {{<<SubSeq(text, 1, k)>> \o rest :
                    rest \in Splits(SubSeq(text, k + 1, Len(text)))} : k \in 1..Len(text)}

\* text.split('\n')[0]
FirstLine(text) ==
    IF \E i \in 1..Len(text) : text[i] = Newline
    THEN SubSeq(text, 1, (CHOOSE i \in 1..Len(text) :
                            text[i] = Newline /\ \A j \in 1..(i - 1) : text[j] # Newline) - 1)
    ELSE text

\* JSON.parse(line) returns an object: no prefix of the control line but the
\* whole line is a JSON text
ParsesAsObject(line) ==
    /\ Len(line) >= 2
    /\ Head(line) = "{"
    /\ line[Len(line)] = "}"

\* the body of the reader loop for one chunk: on the first chunk, take
\* JSON.parse(text.split('\n')[0]).userMessage and continue; if that throws,
\* and on every later chunk, setStreamingMessage(prev => prev + text)
ConsumeChunk(state, text) ==
    IF state.isFirstChunk /\ ParsesAsObject(FirstLine(text))
    THEN [state EXCEPT !.isFirstChunk = FALSE, !.userMessage = FirstLine(text)]
    ELSE [state EXCEPT !.isFirstChunk = FALSE, !.streamingMessage = @ \o text]

\* fetch resolves with a 200 response whose body the transport delivers in `chunks`
ClientFetch(reply, chunks) ==
    /\ ~reads.given
    /\ reads' = [given |-> TRUE, reply |-> reply, chunks |-> chunks]
    /\ UNCHANGED <<users, messages, chatVars, opVars, ctxVars, profileVars, synVars, consumer>>

\* const { done, value } = await reader.read(); const text = decode(value); ...
ClientRead ==
    /\ reads.given
    /\ reads.chunks # <<>>
    /\ consumer' = ConsumeChunk(consumer, Head(reads.chunks))
    /\ reads' = [reads EXCEPT !.chunks = Tail(@)]
    /\ UNCHANGED <<users, messages, chatVars, opVars, ctxVars, profileVars, synVars>>

NextClient ==
    \/ /\ ~reads.given
       /\ \E reply \in Replies(MaxReply) : \E chunks \in Splits(Body(reply)) :
             ClientFetch(reply, chunks)
    \/ ClientRead

SpecClient == InitOne /\ [][NextClient]_vars

\* ================================================================== claims
IsPrefix(a, b) == Len(a) <= Len(b) /\ SubSeq(b, 1, Len(a)) = a

\* the row persisted as the Twin turn of request r
TwinRow(r) == messages[twinMessage[r]]

\* C1: when the upstream stream of a chat request ended naturally and the Twin
\* turn was persisted, the persisted text is the in-order concatenation of the
\* reply fragments written to that request's response.
C1_PersistedIsConcat ==
    \A r \in Reqs :
        twinMessage[r] # 0 =>
            /\ stream[r] = "end"
            /\ ~TwinRow(r).fromUser
            /\ TwinRow(r).content = Concat(FragsOf(res[r]))

C1_Witness ==
    \E r \in Reqs :
        /\ twinMessage[r] # 0
        /\ Len(FragsOf(res[r])) >= 2
        /\ FragsOf(res[r])[1] # FragsOf(res[r])[2]

C3_NoPullAfterCancel ==
    [][\A r \in Reqs :
          cancelled[r] = "streaming" => pulls'[r] = pulls[r]]_vars

\* C4: the fragments written to the response are, in order, the non-empty
\* contents of the chunks that yielded; when the next chunk is requested every
\* fragment yielded so far has been written; no empty text is ever written.
C4_ForwardedInOrder ==
    [][\A r \in Reqs :
          /\ IsPrefix(FragsOf(res'[r]), yielded'[r])
          /\ Len(yielded'[r]) - Len(FragsOf(res'[r])) <= 1
          /\ pulls'[r] # pulls[r] => FragsOf(res[r]) = yielded[r]
          /\ \A i \in 1..Len(res'[r]) : res'[r][i].t = "frag" => res'[r][i].s # EmptyText]_vars

C4_Witness ==
    \E r \in Reqs :
        /\ Len(FragsOf(res[r])) >= 2
        /\ FragsOf(res[r])[1] # FragsOf(res[r])[2]
        /\ pulls[r] > Len(yielded[r]) + 1

\* the state of the reply of request r in the state machine
\* Idle -> Generating -> (Completed | Failed | Cancelled): Cancelled once the
\* consumer has disconnected while the stream was open, Failed once the
\* handler has given up after the control record without a natural end of the
\* stream, Completed once the handler has finished after a natural end
ReplyState(r) ==
    IF cancelled[r] \in {"open", "streaming"} THEN "Cancelled"
    ELSE IF pc[r] = "done" /\ stream[r] = "end" THEN "Completed"
    ELSE IF pc[r] = "done" /\ userMessage[r] # 0 THEN "Failed"
    ELSE IF stream[r] \in {"open", "end"} THEN "Generating"
    ELSE "Idle"

Terminal(r) == ReplyState(r) \in {"Completed", "Failed", "Cancelled"}

\* C5 (as claimed): a terminal state of a reply is absorbing: the reply stays in
\* it, no further fragment is forwarded, no further chunk is requested from
\* upstream and no further turn is persisted for it.
C5_TerminalAbsorbing ==
    [][\A r \in Reqs :
          Terminal(r) =>
              /\ ReplyState(r)' = ReplyState(r)
              /\ FragsOf(res'[r]) = FragsOf(res[r])
              /\ pulls'[r] = pulls[r]
              /\ twinMessage'[r] = twinMessage[r]]_vars

\* C6 (as claimed): a Twin turn is appended for a request only when its reply
\* is Completed, after that request's User turn; none is appended for a
\* request whose reply is Failed or Cancelled.
C6_TwinOnlyIfCompleted ==
    \A r \in Reqs :
        twinMessage[r] # 0 =>
            /\ ReplyState(r) = "Completed"
            /\ userMessage[r] # 0
            /\ userMessage[r] < twinMessage[r]

\* C7: context selection returns the last 5 turns of the list it is given (all
\* of them when there are fewer), in the order of the list, each as
\* "<label>: <text>" with label "User" for a user turn and the twin's name
\* for a twin turn; of 8 turns it returns turns 4 to 8.
C7_ContextIsLastFive ==
    ctxOut.done =>
        LET n == Len(ctxTurns)
            k == IF n < 5 THEN n ELSE 5
            out == ctxOut.out
        IN /\ Len(out) = k
           /\ \A i \in 1..k :
                 LET t == ctxTurns[n - k + i]
                 IN out[i] = <<IF t.fromUser THEN "User" ELSE ctxName, ": ">> \o t.content
           /\ n = 8 => \A i \in 1..5 : out[i][3] = Digits[3 + i]

C7_Witness ==
    /\ ctxOut.done
    /\ Len(ctxTurns) = 8
    /\ ctxName = "Bob"
    /\ ctxTurns[4].fromUser
    /\ ~ctxTurns[5].fromUser

\* C8 (as claimed): the ids of the stored turns are strictly increasing in the
\* order the turns were appended, and every listing the chat handler reads is
\* in strictly increasing id order.
C8_ListedInCreationOrder ==
    /\ \A i, j \in 1..Len(messages) : i < j => messages[i].id < messages[j].id
    /\ \A r \in Reqs : \A i, j \in 1..Len(listed[r]) :
          i < j => listed[r][i].id < listed[r][j].id

\* C9: the turn log is append-only: every step of every operation (chat, create,
\* update, Spotify callback) leaves each stored turn in place with the same id,
\* owner, speaker and text.
C9_AppendOnly == [][IsPrefix(messages, messages')]_vars

C9_Witness ==
    /\ Len(messages) >= 3
    /\ \E r \in Reqs : twinMessage[r] # 0
    /\ \E o \in Ops : ops[o].pc = "done" /\ ops[o].out \in {"200", "chat"}

\* C10 (as claimed): a response that starts with the control record holds exactly
\* one control record, which carries the persisted user turn of the request,
\* and every record written after it is a reply fragment; fragments are only
\* written after the control record.
C10_Framing ==
    \A r \in Reqs :
        /\ \A i \in 1..Len(res[r]) : res[r][i].t \in {"control", "frag"} => res[r][1].t = "control"
        /\ (res[r] # <<>> /\ res[r][1].t = "control") =>
              /\ res[r][1].m = userMessage[r]
              /\ res[r][1].m \in 1..Len(messages)
              /\ messages[res[r][1].m].fromUser
              /\ messages[res[r][1].m].content = rcontent[r]
              /\ \A i \in 2..Len(res[r]) : res[r][i].t = "frag"

\* C11 (as claimed): every persona stored for a user has all four fields
\* (interests, style, traits, personalityInsight): a structured response that
\* lacks one makes synthesis fail and nothing is persisted.
C11_StoredPersonaComplete ==
    \A u \in 1..Len(users) :
        users[u].twin # NoPersona => PersonaFields \subseteq DOMAIN users[u].twin

\* C12 (as claimed): synthesis succeeds only on an insight call that returned
\* non-empty content: when the insight call returns no content (or rejects)
\* generateTwinPersonality rejects, so no persona holds an empty insight.
C12_InsightNeverEmpty ==
    (synOut.done /\ synOut.value.ok) =>
        /\ synIn.insightReply.ok
        /\ synIn.insightReply.has
        /\ synOut.value.persona.personalityInsight # EmptyText

\* C13 (as claimed): for every outcome of fetch and parse, getLetterboxdProfile
\* and getUserData return a value whose status is 'success', or 'error' with a
\* message; neither ever rejects.
C13_NeverThrows ==
    /\ lbOut.done =>
          /\ Status(lbOut.value) \in {"success", "error"}
          /\ Status(lbOut.value) = "error" => Has(lbOut.value, "error")
    /\ spOut.done =>
          /\ Status(spOut.value) \in {"success", "error"}
          /\ Status(spOut.value) = "error" => Has(spOut.value, "error")

\* what a prompt must hold for a source: its data when the source is success,
\* and otherwise the no-data clause and nothing else
MoviesAsClaimed(section, data) ==
    IF Has(data, "status") /\ data.status = "success"
    THEN /\ section.clause \in {"Their movie preferences:", "Movie Preferences:"}
         /\ section.favoriteGenres = data.favoriteGenres
         /\ section.favoriteFilms = data.favoriteFilms
         /\ Len(section.recentRatings) = Len(data.recentRatings)
    ELSE section = [clause |-> "No movie preference data available."]

MusicAsClaimed(section, data) ==
    IF Has(data, "status") /\ data.status = "success"
    THEN /\ section.clause \in {"Their music preferences:", "Music Preferences:"}
         /\ section.topArtists = data.topArtists
         /\ section.topGenres = data.topGenres
         /\ Len(section.recentTracks) <= Len(data.recentTracks)
    ELSE section = [clause |-> "No music preference data available."]

\* C15: for every combination of the two sources (undefined, not_provided,
\* error, success), every prompt synthesis sends (the insight prompt, and the
\* structured prompt when the insight call resolved) holds for each source
\* either its data section, exactly when its status is success, or the
\* no-data clause of that source and nothing of the source's fields.
C15_NoDataClause ==
    synOut.done =>
        LET sent == synOut.value.calls
        IN /\ Len(sent) = IF synIn.insightReply.ok THEN 2 ELSE 1
           /\ sent[1].ask = "insight"
           /\ Len(sent) = 2 => sent[2].ask = "persona"
           /\ \A i \in 1..Len(sent) :
                 /\ MoviesAsClaimed(sent[i].movies, synIn.lb)
                 /\ MusicAsClaimed(sent[i].music, synIn.sp)

C15_Witness ==
    /\ synOut.done
    /\ Len(synOut.value.calls) = 2
    /\ Has(synIn.lb, "favoriteFilms") /\ synIn.lb.status = "error"
    /\ Has(synIn.sp, "status") /\ synIn.sp.status = "success"
    /\ synOut.value.calls[2].music.topArtists # <<>>

\* the raw ratings that are at least 4.5 out of 5
HighRatings == {<<"5", ".", "0">>, <<"5">>, <<"4", ".", "5">>}

\* an examined item that has a title and a rating of at least 4.5
HighRated(item) ==
    /\ Has(item, "filmTitle") /\ item.filmTitle # ""
    /\ ~Has(item, "filmGenresObj")
    /\ Has(item, "memberRating") /\ item.memberRating \in HighRatings

\* the examined items of the feed given to the normalizer
Examined == Take(lbFetch.fetch.items, 20)

SeenGenres ==
    Flatten([i \in 1..Len(Examined) |->
               IF Has(Examined[i], "filmGenresObj") THEN <<>> ELSE ItemGenres(Examined[i])])

Frequency(g) == Cardinality({i \in 1..Len(SeenGenres) : SeenGenres[i] = g})

FirstSeen(g) == CHOOSE i \in 1..Len(SeenGenres) :
                    SeenGenres[i] = g /\ \A j \in 1..(i - 1) : SeenGenres[j] # g

\* g ranks before h: more frequent, or as frequent and seen first
RanksBefore(g, h) ==
    \/ Frequency(g) > Frequency(h)
    \/ Frequency(g) = Frequency(h) /\ FirstSeen(g) < FirstSeen(h)

\* C17 (as claimed): when the normalizer returns success, favoriteGenres is the
\* genres of the examined items ranked by descending frequency, ties in
\* first-seen order, cut to the first 5, whatever the genre names are.
C17_GenreRanking ==
    (lbOut.done /\ Status(lbOut.value) = "success") =>
        LET out == lbOut.value.favoriteGenres
            all == Range(SeenGenres)
        IN /\ Len(out) = (IF Cardinality(all) <= 5 THEN Cardinality(all) ELSE 5)
           /\ Range(out) \subseteq all
           /\ \A i, j \in 1..Len(out) : i < j => RanksBefore(out[i], out[j])
           /\ \A g \in all \ Range(out) : \A i \in 1..Len(out) : RanksBefore(out[i], g)

\* the three typed states of a stored profile value
ProfileStatuses == {"not_provided", "error", "success"}

\* C14: in POST /api/users, whatever the Letterboxd outcome (no URL, a failed
\* fetch, a feed), the update step stores the typed value (not_provided exactly
\* when no URL was given) and goes on to synthesis; there, when both model
\* calls resolve, the persona is persisted and the user returned (200) is
\* possible for every such outcome, and a 200 leaves a persona stored.
C14_CreationNotBlocked ==
    [][\A o \in Ops :
          ops[o].kind = "create" =>
              /\ (ops[o].pc = "update" /\ ops'[o] # ops[o]) =>
                    /\ ops'[o].pc = "synth"
                    /\ users'[ops[o].id].lb = ops'[o].lb
                    /\ Status(ops'[o].lb) \in ProfileStatuses
                    /\ Status(ops'[o].lb) = "not_provided" <=> ~ops[o].url
              /\ (ops[o].pc = "synth" /\ ops'[o] # ops[o]) =>
                    /\ \A ir \in SomeInsightReplies, pr \in SomePersonaReplies :
                          ENABLED OpSynth(o, ir, pr)
                    /\ ops'[o].out = "200" =>
                          /\ users'[ops[o].id].twin # NoPersona
                          /\ users'[ops[o].id].twin.personalityInsight \in {EmptyText, <<"i">>}]_vars

C14_Witness ==
    \E o \in Ops :
        /\ ops[o].kind = "create" /\ ops[o].out = "200"
        /\ Len(users) >= 2
        /\ users[Len(users)].lb.status = "error"
        /\ users[Len(users)].twin # NoPersona

\* the personas synthesis can return in the user routes
Synthesizable ==
    {Spread(pr.text.value, IF ir.has THEN ir.text ELSE EmptyText) :
        ir \in SomeInsightReplies, pr \in SomePersonaReplies}

\* C18: the step of PATCH /api/users/:id or of the Spotify callback that
\* persists the persona after a successful synthesis leaves as stored persona
\* exactly the persona just synthesized (for the callback: the value the
\* handler holds in `twin`), whatever the previous persona held.
C18_PersonaReplaced ==
    [][\A o \in Ops :
          /\ (ops[o].kind = "patch" /\ ops[o].pc = "synth" /\ ops'[o].out = "200") =>
                users'[ops[o].id].twin \in Synthesizable
          /\ (ops[o].pc = "cbTwin" /\ ops'[o].out = "chat") =>
                users'[ops[o].id].twin = ops[o].twin]_vars

C18_Witness ==
    /\ \E o \in Ops : ops[o].kind = "patch" /\ ops[o].out = "200"
    /\ DOMAIN users[1].twin = {"personalityInsight"}
    /\ Len(users) = 1

\* the fields a stored profile value has, by status
LetterboxdShapeOk(data) ==
    /\ Has(data, "status")
    /\ data.status \in ProfileStatuses
    /\ DOMAIN data = (IF data.status = "success"
                      THEN {"status", "recentRatings", "favoriteGenres", "favoriteFilms"}
                      ELSE IF data.status = "error" THEN {"status", "error"}
                      ELSE {"status"})

SpotifyShapeOk(data) ==
    /\ Has(data, "status")
    /\ data.status \in ProfileStatuses
    /\ DOMAIN data = (IF data.status = "success"
                      THEN {"status", "topArtists", "topGenres", "recentTracks"}
                      ELSE IF data.status = "error" THEN {"status", "error"}
                      ELSE {"status"})

\* C20: after any sequence of create, update and Spotify-callback operations,
\* every stored letterboxdData and spotifyData has status success, error or
\* not_provided and exactly the fields of that variant: the data fields only
\* with success, the error message exactly with error, nothing with
\* not_provided.
C20_OneVariant ==
    \A u \in 1..Len(users) :
        /\ LetterboxdShapeOk(users[u].lb)
        /\ SpotifyShapeOk(users[u].sp)

C20_Witness ==
    /\ Len(users) = 1
    /\ users[1].lb.status = "success"
    /\ users[1].sp.status = "error"
    /\ \A o \in 1..MaxUserOps : ops[o].pc = "done"

\* C19: with several chat requests of one user in flight, what each response
\* holds is, in order, fragments its own upstream stream yielded, and the Twin
\* turn persisted for a request is the concatenation of the fragments of its
\* own stream, after its own user turn.
C19_NoInterleaving ==
    \A r \in Reqs :
        /\ IsPrefix(FragsOf(res[r]), yielded[r])
        /\ twinMessage[r] # 0 =>
              /\ TwinRow(r).content = Concat(yielded[r])
              /\ TwinRow(r).userId = ruser[r]
              /\ userMessage[r] < twinMessage[r]
        /\ \A q \in Reqs : (q # r /\ twinMessage[r] # 0) => twinMessage[q] # twinMessage[r]

C19_Witness ==
    /\ ruser[1] = ruser[2]
    /\ stream[1] = "open" /\ stream[2] = "open"
    /\ FragsOf(res[1]) = <<<<"a">>>>
    /\ FragsOf(res[2]) = <<<<"b", "a">>>>
    /\ pc[1] = "write" /\ pending[1] = <<"b", "a">>

\* what analyzePersonality returns for a reply that resolves
InsightText(reply) == IF reply.has THEN reply.text ELSE EmptyText

\* C21: in every synthesis the first call sent is the insight call; when it
\* fails no structured call is sent; when it resolves the structured call that
\* follows carries the text the insight call returned in its prompt (so it is
\* issued after the insight call completed); and the personalityInsight of the
\* returned persona is that text, whatever the structured response holds in a
\* field of that name.
C21_InsightFirst ==
    synOut.done =>
        LET out == synOut.value
            sent == out.calls
            insightReply == synIn.insightReply
        IN /\ Len(sent) >= 1
           /\ sent[1].ask = "insight"
           /\ ~insightReply.ok => (Len(sent) = 1 /\ ~out.ok)
           /\ insightReply.ok =>
                 /\ Len(sent) = 2
                 /\ sent[2].ask = "persona"
                 /\ sent[2].insight = InsightText(insightReply)
           /\ out.ok => out.persona.personalityInsight = InsightText(insightReply)

C21_Witness ==
    /\ synOut.done
    /\ synOut.value.ok
    /\ synIn.insightReply.text = <<"i">>
    /\ Has(synIn.personaReply.text.value, "personalityInsight")
    /\ synIn.personaReply.text.value.personalityInsight = <<"b">>

\* an item of the feed that yields a rating: it has a title and reads without error
Titled(item) ==
    /\ Has(item, "filmTitle") /\ item.filmTitle # ""
    /\ ~Has(item, "filmGenresObj")

\* the genres of the artists the provider listed, with repetitions, in provider order
ListedGenres ==
    Flatten([i \in 1..Len(spFetch.fetch.artists) |-> spFetch.fetch.artists[i].genres])

\* the position at which g is first listed
FirstListed(g) == CHOOSE i \in 1..Len(ListedGenres) :
                      ListedGenres[i] = g /\ \A j \in 1..(i - 1) : ListedGenres[j] # g

Smaller(a, b) == IF a < b THEN a ELSE b

\* C22: a success value of getUserData holds as topArtists the names of the
\* first at most 5 listed artists in provider order, as topGenres the first at
\* most 5 distinct genres in first-seen order with no duplicate, and as
\* recentTracks the first at most 10 listed tracks in provider order; a success
\* value of getLetterboxdProfile holds as recentRatings the first at most 10
\* ratings of the titled feed items, in feed order.
C22_CapsAndOrder ==
    /\ (spOut.done /\ Status(spOut.value) = "success") =>
          LET out == spOut.value
              given == spFetch.fetch
              all == Range(ListedGenres)
          IN /\ Len(out.topArtists) = Smaller(Len(given.artists), 5)
             /\ \A i \in 1..Len(out.topArtists) : out.topArtists[i] = given.artists[i].name
             /\ Len(out.topGenres) = Smaller(Cardinality(all), 5)
             /\ Range(out.topGenres) \subseteq all
             /\ \A i, j \in 1..Len(out.topGenres) :
                   i < j => FirstListed(out.topGenres[i]) < FirstListed(out.topGenres[j])
             /\ \A g \in all \ Range(out.topGenres) : \A i \in 1..Len(out.topGenres) :
                   FirstListed(out.topGenres[i]) < FirstListed(g)
             /\ Len(out.recentTracks) = Smaller(Len(given.tracks), 10)
             /\ \A i \in 1..Len(out.recentTracks) :
                   /\ out.recentTracks[i].name = given.tracks[i].name
                   /\ out.recentTracks[i].artist = given.tracks[i].artists[1]
    /\ (lbOut.done /\ Status(lbOut.value) = "success") =>
          LET out == lbOut.value.recentRatings
              titled == Keep(Examined, {it \in Range(Examined) : Titled(it)})
          IN /\ Len(out) = Smaller(Len(titled), 10)
             /\ \A i \in 1..Len(out) :
                   /\ out[i].title = titled[i].filmTitle
                   /\ out[i].rating = (IF Has(titled[i], "memberRating")
                                       THEN titled[i].memberRating \o <<"/", "5">>
                                       ELSE Watched)

\* the caps bind: more than 5 artists, more than 5 genres, more than 10 tracks
C22_Witness ==
    /\ spOut.done /\ Status(spOut.value) = "success"
    /\ Len(spFetch.fetch.artists) = 7
    /\ Len(spFetch.fetch.tracks) = 11
    /\ spOut.value.topArtists = <<"N1", "N2", "N3", "N4", "N5">>
    /\ spOut.value.topGenres = <<"G2", "G1", "G3", "G4", "G5">>
    /\ Len(spOut.value.recentTracks) = 10

\* the cap of recentRatings binds
C22_RatingsWitness ==
    /\ lbOut.done /\ Status(lbOut.value) = "success"
    /\ Len(lbFetch.fetch.items) = 11
    /\ Len(lbOut.value.recentRatings) = 10
    /\ lbOut.value.recentRatings[10].title = "T10"

\* C23: a chat request opens at most one upstream streaming call; once its
\* stream has ended or failed, with or without fragments forwarded, no further
\* call is opened and no further chunk is requested for it, and a request that
\* has responded takes no further step.
C23_NoRetry ==
    [][\A r \in Reqs :
          /\ calls'[r] <= 1
          /\ calls'[r] >= calls[r]
          /\ stream[r] \in {"end", "error"} =>
                /\ stream'[r] = stream[r]
                /\ calls'[r] = calls[r]
                /\ pulls'[r] = pulls[r]
          /\ pc[r] = "done" =>
                /\ pc'[r] = "done"
                /\ calls'[r] = calls[r]
                /\ res'[r] = res[r]]_vars

C23_Witness ==
    \E r \in Reqs :
        /\ pc[r] = "done"
        /\ stream[r] = "error"
        /\ calls[r] = 1
        /\ FragsOf(res[r]) = <<<<"b", "a">>>>

\* C24 (as claimed): an error record is written to a chat response only when
\* nothing of the streamed response was written before it: no error record
\* follows a control record or a reply fragment.
C24_ErrorOnlyBeforeStreaming ==
    \A r \in Reqs : \A i \in 1..Len(res[r]) :
        res[r][i] = ErrorRec => \A j \in 1..(i - 1) : res[r][j].t \notin {"control", "frag"}

InCreationOrder(rows) == \A i, j \in 1..Len(rows) : i < j => rows[i].id < rows[j].id

\* the position of the request's own user turn among the turns it listed (0: absent)
OwnTurn(r) ==
    IF \E i \in 1..Len(listed[r]) : listed[r][i].id = userMessage[r]
    THEN CHOOSE i \in 1..Len(listed[r]) : listed[r][i].id = userMessage[r]
    ELSE 0

\* the prompt request r is about to send
PromptOf(r) == ChatPrompt(user[r].twin, user[r].name, rcontent[r], context[r])

\* request r has listed its turns in creation order and is about to build its prompt
AboutToPrompt(r) ==
    /\ pc[r] = "open"
    /\ PromptBuilds(user[r].twin)
    /\ InCreationOrder(listed[r])

\* C28 (as claimed): when the prompt is built, under creation-order listing,
\* the window holds the new user message as its last entry, preceded by at
\* most 4 turns, and the message text is in the prompt both in the context
\* block and as the message to respond to.
C28_NewMessageLast ==
    \A r \in Reqs :
        AboutToPrompt(r) =>
            LET window == PromptOf(r).context
            IN /\ OwnTurn(r) = Len(listed[r])
               /\ window # <<>>
               /\ window[Len(window)] = <<"User", ": ">> \o rcontent[r]
               /\ Len(window) - 1 <= 4
               /\ PromptOf(r).message = rcontent[r]

\* C28 (amended): the user turn is persisted before the turns are listed, so
\* the listing holds it; under creation-order listing, with `later` turns of
\* the user persisted after it and before the listing (by concurrent requests),
\* the window holds it, when later < 5, at position `later` from the end,
\* preceded by the 4 - later turns before it (or all of them when fewer), so it
\* is the last entry exactly when later = 0; the prompt then holds the message
\* text in the context block and as the message to respond to.
C28_PersistedBeforeRead ==
    \A r \in Reqs :
        /\ pc[r] \in {"control", "list"} => userMessage[r] \in 1..Len(messages)
        /\ pc[r] = "open" => OwnTurn(r) # 0
        /\ AboutToPrompt(r) =>
              LET window == PromptOf(r).context
                  later == Len(listed[r]) - OwnTurn(r)
                  before == OwnTurn(r) - 1
              IN /\ PromptOf(r).message = rcontent[r]
                 /\ later < 5 =>
                       /\ Len(window) > later
                       /\ window[Len(window) - later] = <<"User", ": ">> \o rcontent[r]
                       /\ Len(window) - later - 1 = Smaller(before, 4 - later)
                 /\ (later = 0) <=> (OwnTurn(r) = Len(listed[r]))

\* a turn of the log is left out of the window and a later turn follows the own one
C28_Witness ==
    /\ AboutToPrompt(1)
    /\ Len(listed[1]) = 6
    /\ OwnTurn(1) = 5
    /\ Len(context[1]) = 5
    /\ twinMessage[2] = 6

\* C26 (as claimed): every chat request that found its user eventually ends its
\* response, whichever step fails.
C26_ResponseEnds ==
    \A r \in Reqs : (pc[r] = "saveUser") ~> ended[r]

\* C25 (as claimed): however the transport splits the response body into read
\* chunks, when the reader is done the consumer has taken the first line as
\* the control record and its streaming text is the reply bytes after that
\* line: no reply byte dropped, no control byte displayed.
C25_FramingHonoured ==
    (reads.given /\ reads.chunks = <<>>) =>
        /\ consumer.userMessage = ControlLine
        /\ consumer.streamingMessage = reads.reply

\* the step of operation o in which its synthesis fails
SynthesisFails(o) ==
    /\ ops[o].pc \in {"synth", "cbSynth"}
    /\ ops'[o].pc = "done"
    /\ ops'[o].out \in {"400", "spotify_auth_failed"}

\* the step of operation o (POST or PATCH) in which it stores the profile
StoresProfile(o) == ops[o].pc = "update" /\ ops'[o].pc = "synth"

\* C27: the step in which a synthesis fails changes no stored row: the persona
\* stays the previous one (null for a user POST created) and the callback has
\* stored no Spotify data; POST and PATCH have stored the new name and profile
\* data before, in a step that keeps the stored persona, and POST creates the
\* row with a null persona.
C27_FailedSynthesis ==
    [][\A o \in Ops :
          /\ SynthesisFails(o) => users' = users
          /\ StoresProfile(o) =>
                /\ users'[ops[o].id].name = ops[o].name
                /\ users'[ops[o].id].lb = ops'[o].lb
                /\ users'[ops[o].id].twin = users[ops[o].id].twin
          /\ (ops[o].pc = "idle" /\ ops'[o].kind = "create") =>
                /\ Len(users') = Len(users) + 1
                /\ users'[Len(users')].twin = NoPersona]_vars

\* a PATCH alone failed at synthesis: the row has the new name and the new
\* profile data and still the persona it had
C27_Witness ==
    /\ ops[1] = FinishedAfter("patch", "400", <<InsightPrompt(Bio, Undefined, Undefined)>>)
    /\ ops[2] = IdleOp
    /\ users[1].name = "Bob"
    /\ Status(users[1].lb) = "error"
    /\ users[1].twin = InitPersona

\* a callback alone failed at synthesis with successful Spotify data
C27_CallbackWitness ==
    /\ ops[1].kind = "callback"
    /\ ops[1].out = "spotify_auth_failed"
    /\ Len(ops[1].music) = 2
    /\ ops[1].music[1].clause # NoMusicData
    /\ ops[2] = IdleOp
    /\ users[1].sp = NotProvided

C29_PendingWitness ==
    /\ Status(pendingSpotifyData) = "success"
    /\ ops[2].kind = "create"
    /\ ops[2].out = "200"
    /\ users[2].sp = NotProvided

====
